---- MODULE Spec2Model ----
(***************************************************************************)
(* Verification model of quantvat's spot engine                            *)
(* (src/src/services/spot_engine.py): the three provider fetchers, the     *)
(* thread-pool aggregation fetch_all_sources and the verification loop of  *)
(* spot_volume_tracker.                                                    *)
(*                                                                         *)
(* Conventions.  Symbols are sequences of one-character strings so that    *)
(* str.upper() is computed character by character.  Money amounts are      *)
(* naturals counted in MoneyUnit dollars; Python floats are modelled as    *)
(* exact rationals [n, d] with d > 0 (rounding is not modelled).           *)
(***************************************************************************)
EXTENDS Integers, Sequences, FiniteSets, TLC

VARIABLES
    user_keys,        \* the user's key/settings document handed to spot_volume_tracker
    future,           \* the three futures submitted to the ThreadPoolExecutor
    completed,        \* providers in the order their futures completed (as_completed)
    collected,        \* how many completed futures the as_completed loop has consumed
    results,          \* fetch_all_sources' local list `results`
    pc,               \* position of spot_volume_tracker's main thread
    all_data,         \* symbol groups, in dict insertion order
    verified_tokens,  \* output of the verification loop, before sorting
    hot_tokens,       \* sorted(verified_tokens, key=flipping_multiple, reverse=True)
    probe,            \* one isolated fetcher call: provider, what the API served, what came back
    market,           \* the entries the providers' endpoints may list
    clock,            \* seconds since fetch_all_sources submitted the three tasks
    listing,          \* what each provider's endpoint lists during the cycle
    USER_LOGS,        \* state.USER_LOGS: per user, the lines captured from its threads
    USER_PROGRESS,    \* state.USER_PROGRESS: per user, the progress entry
    workers,          \* the calls of run_background_task and their worker threads
    futures_pdf,      \* the uploaded futures PDF
    page_calls,       \* the calls of _parse_page_smart made for it, page by page
    futures_df,       \* f_df, the DataFrame PDFParser.extract returned
    spot_file,        \* the table in the user's spot file
    spot_df,          \* s_df, the DataFrame DataProcessor.load_spot returned
    report,           \* what generate_html_report returned
    job,              \* position of run_futures_analysis
    oi_changes,       \* two values of oi_change handed to oi_score_and_signal
    oi_scores         \* what the two calls returned

task_vars == <<USER_LOGS, USER_PROGRESS, workers>>

spot_vars == <<user_keys, future, completed, collected, results, pc,
               all_data, verified_tokens, hot_tokens, probe, market, clock, listing,
               task_vars>>

score_vars == <<oi_changes, oi_scores>>

futures_vars == <<futures_pdf, page_calls, futures_df, spot_file, spot_df, report, job,
                  score_vars>>

vars == <<spot_vars, futures_vars, listing, task_vars>>

-----------------------------------------------------------------------------
(* Bounds of the model *)

\* items that all provider endpoints together serve in one spot cycle
MaxSnapshots == 2
\* items on the pages served to one isolated fetcher call
MaxProbeItems == 2
\* how many times the clock advances during one timed spot cycle
MaxTicks == 3
\* seconds by which the clock advances at a time
ClockStep == 30
\* text lines in one futures PDF
MaxPdfLines == 4
\* rows in one spot file
MaxSpotRows == 2
\* tokens listed in one futures PDF
MaxFuturesRows == 3

-----------------------------------------------------------------------------
(* Characters and str.upper() *)

Lowercase == <<"a","b","c","d","e","f","g","h","i","j","k","l","m",
               "n","o","p","q","r","s","t","u","v","w","x","y","z">>
Uppercase == <<"A","B","C","D","E","F","G","H","I","J","K","L","M",
               "N","O","P","Q","R","S","T","U","V","W","X","Y","Z">>

upper_char(c) ==
    IF \E i \in 1..26 : Lowercase[i] = c
    THEN Uppercase[CHOOSE i \in 1..26 : Lowercase[i] = c]
    ELSE c

upper(s) == [i \in 1..Len(s) |-> upper_char(s[i])]

STABLECOINS == {
    <<"U","S","D","T">>, <<"U","S","D","C">>, <<"B","U","S","D">>, <<"D","A","I">>,
    <<"B","S","C","-","U","S","D">>, <<"U","S","D","1">>, <<"C","B","B","T","C">>,
    <<"W","B","N","B">>, <<"W","E","T","H">>, <<"U","S","T">>,
    <<"S","B","U","S","D","T">>, <<"T","U","S","D">>, <<"U","S","D","P">>,
    <<"U","S","D","D">>, <<"F","R","A","X">>, <<"G","U","S","D">>,
    <<"L","U","S","D">>, <<"F","D","U","S","D">> }

-----------------------------------------------------------------------------
(* Floats as exact rationals *)

Rat(n, d) == [n |-> n, d |-> d]

RatLeq(a, b) == a.n * b.d <= b.n * a.d
RatLt(a, b)  == a.n * b.d <  b.n * a.d
RatEq(a, b)  == a.n * b.d =  b.n * a.d

\* Python's a / b for b > 0
RatDiv(a, b) == Rat(a.n * b.d, a.d * b.n)

\* Python's min(a, b): b only when b < a
RatMin(a, b) == IF RatLt(b, a) THEN b ELSE a

-----------------------------------------------------------------------------
(* User configuration *)

\* A raw engine_settings value: missing/None, blank string, unparsable text, or a number
NoneVal  == [kind |-> "none",  n |-> 0, d |-> 1]
BlankVal == [kind |-> "blank", n |-> 0, d |-> 1]
JunkVal  == [kind |-> "junk",  n |-> 0, d |-> 1]
NumVal(n, d) == [kind |-> "num", n |-> n, d |-> d]

safe_float(val, default) ==
    IF val.kind = "num" THEN Rat(val.n, val.d) ELSE default

DEFAULT_MIN_VTMR    == Rat(1, 2)
DEFAULT_MAX_VTMR    == Rat(199, 1)
DEFAULT_MIN_LC_VTMR == Rat(1, 2)

MIN_VTMR(keys)    == safe_float(keys.engine_settings.min_vtmr, DEFAULT_MIN_VTMR)
MAX_VTMR(keys)    == safe_float(keys.engine_settings.max_vtmr, DEFAULT_MAX_VTMR)
MIN_LC_VTMR(keys) == safe_float(keys.engine_settings.min_largecap_vtmr, DEFAULT_MIN_LC_VTMR)

LC_THRESHOLD == 1000000000
MoneyUnit    == 10^6
\* the large-cap threshold in model amounts
LC_UNITS     == LC_THRESHOLD \div MoneyUnit

FETCH_THRESHOLD(keys) == RatMin(MIN_VTMR(keys), MIN_LC_VTMR(keys))

\* API keys: a key is absent from the document, empty, the placeholder, or a real key
Absent == "<absent>"
Placeholder(p) == IF p = "CG" THEN "CONFIG_REQUIRED_CG"
                  ELSE IF p = "CMC" THEN "CONFIG_REQUIRED_CMC"
                  ELSE "CONFIG_REQUIRED_LCW"

\* user_keys.get(NAME, default)
api_key(keys, p) == IF keys.api[p] = Absent THEN Placeholder(p) ELSE keys.api[p]

\* `KEY and KEY != placeholder`
key_usable(keys, p) == api_key(keys, p) # "" /\ api_key(keys, p) # Placeholder(p)

Providers == <<"CG", "CMC", "LCW">>
ProviderSet == {Providers[i] : i \in 1..Len(Providers)}

-----------------------------------------------------------------------------
(* Provider fetchers *)

\* One element of a response payload.  kind "ok": a well-formed entry;
\* "badnum": its volume or market cap is text float() rejects;
\* "nondict": the element is not a JSON object at all.
Item(kind, symbol, mc, vol) == [kind |-> kind, symbol |-> symbol, mc |-> mc, vol |-> vol]

Snapshot(symbol, mc, vol, source) ==
    [symbol |-> symbol, marketcap |-> mc, volume |-> vol, source |-> source]

\* `symbol in STABLECOINS`
is_stablecoin(symbol) == symbol \in STABLECOINS

\* variant: the ratio test without the `mc > 0` guard
passes_prefilter_unguarded(vol, mc, T) == RatLeq(T, Rat(vol, mc))

\* variant: every element with a market cap is kept, whatever its ratio
passes_prefilter_any_ratio(vol, mc, T) == mc > 0

\* `mc > 0 and (vol / mc) >= FETCH_THRESHOLD`
passes_prefilter(vol, mc, T) == mc > 0 /\ RatLeq(T, Rat(vol, mc))

\* The `for t in r.json()` loop: appends to `tokens` until the payload is
\* exhausted or an element raises; whatever was appended before stays.
RECURSIVE scan_items(_, _, _, _)
scan_items(items, source, T, tokens) ==
    IF items = <<>> THEN [tokens |-> tokens, raised |-> FALSE]
    ELSE LET t == Head(items) IN
         IF t.kind = "nondict" THEN [tokens |-> tokens, raised |-> TRUE]
         ELSE LET symbol == upper(t.symbol) IN
              IF is_stablecoin(symbol)
              THEN scan_items(Tail(items), source, T, tokens)
              ELSE IF t.kind = "badnum" THEN [tokens |-> tokens, raised |-> TRUE]
              ELSE IF passes_prefilter(t.vol, t.mc, T)
              THEN scan_items(Tail(items), source, T,
                              Append(tokens, Snapshot(symbol, t.mc, t.vol, source)))
              ELSE scan_items(Tail(items), source, T, tokens)

\* What an endpoint answers for one page: the status of a request that carries
\* the API key, the status of one that does not, and the payload of a 200.
\* "denied" is 401/403/429; "error" is a network error, another non-2xx status
\* or a body that is not JSON.
Page(keyed, keyless, items) == [keyed |-> keyed, keyless |-> keyless, items |-> items]
QuietPage == Page("ok", "ok", <<>>)

CG_FIRST_PAGE == 1
CG_STOP_PAGE  == 5
CG_PAGES      == CG_STOP_PAGE - CG_FIRST_PAGE

CMC_FIRST_START == 1
CMC_STOP_START  == 1001
CMC_STEP        == 100
CMC_PAGES       == (CMC_STOP_START - CMC_FIRST_START + CMC_STEP - 1) \div CMC_STEP

LCW_PAGES == 1

PagesOf(p) == IF p = "CG" THEN CG_PAGES ELSE IF p = "CMC" THEN CMC_PAGES ELSE LCW_PAGES

\* variant: a failing page throws away what the call had gathered so far
page_body_discarding(status, items, source, T, tokens) ==
    IF status # "ok" THEN [tokens |-> <<>>, raised |-> TRUE]
    ELSE LET scan == scan_items(items, source, T, tokens)
         IN IF scan.raised THEN [tokens |-> <<>>, raised |-> TRUE] ELSE scan

\* The body of one `try:` inside a page loop, after the request was answered
\* with `status`: what `tokens` is afterwards and whether `except` ran.
page_body(status, items, source, T, tokens) ==
    IF status # "ok" THEN [tokens |-> tokens, raised |-> TRUE]
    ELSE scan_items(items, source, T, tokens)

\* fetch_coingecko's page loop; `out` carries tokens, the pages whose
\* `except Exception: continue` ran and the number of HTTP requests sent.
RECURSIVE cg_loop(_, _, _, _, _)
cg_loop(api, page, use_key, T, out) ==
    IF page >= CG_STOP_PAGE THEN out
    ELSE LET resp   == api[page - CG_FIRST_PAGE + 1]
             denied == use_key /\ resp.keyed = "denied"
             status == IF use_key /\ ~denied THEN resp.keyed ELSE resp.keyless
             body   == page_body(status, resp.items, "CG", T, out.tokens)
         IN cg_loop(api, page + 1, use_key /\ ~denied, T,
                    [tokens   |-> body.tokens,
                     excepted |-> IF body.raised THEN out.excepted \cup {page}
                                  ELSE out.excepted,
                     requests |-> out.requests + (IF denied THEN 2 ELSE 1)])

fetch_coingecko(api, keys) ==
    cg_loop(api, CG_FIRST_PAGE, key_usable(keys, "CG"), FETCH_THRESHOLD(keys),
            [tokens |-> <<>>, excepted |-> {}, requests |-> 0])

\* fetch_coinmarketcap's loop over `start`; page k of the listing begins at
\* start = CMC_FIRST_START + (k - 1) * CMC_STEP.
RECURSIVE cmc_loop(_, _, _, _)
cmc_loop(api, start, T, out) ==
    IF start >= CMC_STOP_START THEN out
    ELSE LET page == (start - CMC_FIRST_START) \div CMC_STEP + 1
             resp == api[page]
             body == page_body(resp.keyed, resp.items, "CMC", T, out.tokens)
         IN cmc_loop(api, start + CMC_STEP, T,
                     [tokens   |-> body.tokens,
                      excepted |-> IF body.raised THEN out.excepted \cup {page}
                                   ELSE out.excepted,
                      requests |-> out.requests + 1])

\* variant: the listing is requested whether or not the user has a key
fetch_coinmarketcap_keyless(api, keys) ==
    cmc_loop(api, CMC_FIRST_START, FETCH_THRESHOLD(keys),
             [tokens |-> <<>>, excepted |-> {}, requests |-> 0])

fetch_coinmarketcap(api, keys) ==
    IF ~key_usable(keys, "CMC") THEN [tokens |-> <<>>, excepted |-> {}, requests |-> 0]
    ELSE cmc_loop(api, CMC_FIRST_START, FETCH_THRESHOLD(keys),
                  [tokens |-> <<>>, excepted |-> {}, requests |-> 0])

fetch_livecoinwatch(api, keys) ==
    IF ~key_usable(keys, "LCW") THEN [tokens |-> <<>>, excepted |-> {}, requests |-> 0]
    ELSE LET resp == api[1]
             body == page_body(resp.keyed, resp.items, "LCW", FETCH_THRESHOLD(keys), <<>>)
         IN [tokens |-> body.tokens, excepted |-> IF body.raised THEN {1} ELSE {},
             requests |-> 1]

fetch(p, api, keys) ==
    IF p = "CG" THEN fetch_coingecko(api, keys)
    ELSE IF p = "CMC" THEN fetch_coinmarketcap(api, keys)
    ELSE fetch_livecoinwatch(api, keys)

-----------------------------------------------------------------------------
(* fetch_all_sources: the as_completed loop *)

\* a submitted future: its state, the list its task returned, the number of
\* HTTP requests its task sent and the time at which it completed
Running == [state |-> "running", result |-> <<>>, requests |-> 0, done_at |-> 0]

\* variant: f.result() outside any try, so a task's exception ends the loop
collect_future_unguarded(fut, res) ==
    IF fut.state = "raised" THEN [results |-> res, crashed |-> TRUE]
    ELSE [results |-> res \o fut.result, crashed |-> FALSE]

\* One iteration of `for f in as_completed(futures)`: f.result() returns the
\* task's list or re-raises the task's exception, which `except Exception`
\* absorbs.
collect_future(fut, res) ==
    IF fut.state = "raised" THEN [results |-> res, crashed |-> FALSE]
    ELSE IF fut.result # <<>> THEN [results |-> res \o fut.result, crashed |-> FALSE]
    ELSE [results |-> res, crashed |-> FALSE]

-----------------------------------------------------------------------------
(* spot_volume_tracker: grouping, verification loop, sort *)

\* `for t in raw_tokens: all_data.setdefault(t['symbol'], []).append(t)`;
\* a dict keeps its keys in insertion order.
RECURSIVE group_by_symbol(_, _)
group_by_symbol(raw_tokens, groups) ==
    IF raw_tokens = <<>> THEN groups
    ELSE LET t == Head(raw_tokens) IN
         IF \E i \in 1..Len(groups) : groups[i].sym = t.symbol
         THEN LET i == CHOOSE j \in 1..Len(groups) : groups[j].sym = t.symbol
              IN group_by_symbol(Tail(raw_tokens),
                     [groups EXCEPT ![i].tokens = Append(@, t)])
         ELSE group_by_symbol(Tail(raw_tokens),
                     Append(groups, [sym |-> t.symbol, tokens |-> <<t>>]))

RECURSIVE sum_of(_, _)
sum_of(tokens, field) ==
    IF tokens = <<>> THEN 0 ELSE Head(tokens)[field] + sum_of(Tail(tokens), field)

\* `next((t for t in tokens if t['source'] == 'CG'), None)`: index of the first
\* CG entry, 0 for None
first_cg(tokens) ==
    IF \E i \in 1..Len(tokens) : tokens[i].source = "CG"
    THEN CHOOSE i \in 1..Len(tokens) :
            /\ tokens[i].source = "CG"
            /\ \A j \in 1..(i - 1) : tokens[j].source # "CG"
    ELSE 0

\* is_large on the sovereign path: `marketcap > LC_THRESHOLD`
is_large_sovereign(marketcap) == marketcap.n > LC_UNITS * marketcap.d

\* is_large on the fallback path: `any(t['marketcap'] > LC_THRESHOLD for t in tokens)`
is_large_fallback(tokens) == \E i \in 1..Len(tokens) : tokens[i].marketcap > LC_UNITS

\* the "Flexible Thresholds" condition
passes_thresholds(is_large, ratio, keys) ==
    \/ is_large /\ RatLeq(MIN_LC_VTMR(keys), ratio) /\ RatLeq(ratio, MAX_VTMR(keys))
    \/ ~is_large /\ RatLeq(MIN_VTMR(keys), ratio) /\ RatLeq(ratio, MAX_VTMR(keys))

Token(sym, marketcap, volume, ratio, count, is_large) ==
    [symbol |-> sym, marketcap |-> marketcap, volume |-> volume,
     flipping_multiple |-> ratio, source_count |-> count, large_cap |-> is_large]

\* variant: the sovereign branch averages the whole group
sovereign_values_averaged(tokens) ==
    [marketcap |-> Rat(sum_of(tokens, "marketcap"), Len(tokens)),
     volume    |-> Rat(sum_of(tokens, "volume"), Len(tokens))]

\* consensus (marketcap, volume) of the sovereign branch
sovereign_values(tokens) ==
    LET cg_data == tokens[first_cg(tokens)]
    IN [marketcap |-> Rat(cg_data.marketcap, 1), volume |-> Rat(cg_data.volume, 1)]

\* variant: the fallback branch takes the first snapshot's figures
fallback_values_first(tokens) ==
    [marketcap |-> Rat(tokens[1].marketcap, 1), volume |-> Rat(tokens[1].volume, 1)]

\* consensus (marketcap, volume) of the fallback branch
fallback_values(tokens) ==
    [marketcap |-> Rat(sum_of(tokens, "marketcap"), Len(tokens)),
     volume    |-> Rat(sum_of(tokens, "volume"), Len(tokens))]

\* variant: the division is written the wrong way round
ratio_of_inverted(volume, marketcap) == RatDiv(marketcap, volume)

\* `ratio = volume / marketcap`
ratio_of(volume, marketcap) == RatDiv(volume, marketcap)

\* `if len(tokens) >= 2:` on the fallback branch
enough_sources(tokens) == Len(tokens) >= 2

\* One iteration of `for sym, tokens in all_data.items()`: the tokens it
\* appends to verified_tokens (none or one).
verify_group(sym, tokens, keys) ==
    IF first_cg(tokens) # 0
    THEN LET c        == sovereign_values(tokens)
             ratio    == ratio_of(c.volume, c.marketcap)
             is_large == is_large_sovereign(c.marketcap)
         IN IF passes_thresholds(is_large, ratio, keys)
            THEN <<Token(sym, c.marketcap, c.volume, ratio, Len(tokens), is_large)>>
            ELSE <<>>
    ELSE IF enough_sources(tokens)
    THEN LET c        == fallback_values(tokens)
             ratio    == ratio_of(c.volume, c.marketcap)
             is_large == is_large_fallback(tokens)
         IN IF passes_thresholds(is_large, ratio, keys)
            THEN <<Token(sym, c.marketcap, c.volume, ratio, Len(tokens), is_large)>>
            ELSE <<>>
    ELSE <<>>

RECURSIVE verify_all(_, _)
verify_all(groups, keys) ==
    IF groups = <<>> THEN <<>>
    ELSE verify_group(Head(groups).sym, Head(groups).tokens, keys)
         \o verify_all(Tail(groups), keys)

\* variant: an element goes in front of the elements whose key equals its own
RECURSIVE insert_desc_unstable(_, _)
insert_desc_unstable(sorted, x) ==
    IF sorted = <<>> THEN <<x>>
    ELSE IF RatLt(x.flipping_multiple, Head(sorted).flipping_multiple)
         THEN <<Head(sorted)>> \o insert_desc_unstable(Tail(sorted), x)
         ELSE <<x>> \o sorted

\* where `x` lands in a list already sorted by flipping_multiple descending:
\* behind every element whose key is >= its own (the sort is stable)
RECURSIVE insert_desc(_, _)
insert_desc(sorted, x) ==
    IF sorted = <<>> THEN <<x>>
    ELSE IF RatLeq(x.flipping_multiple, Head(sorted).flipping_multiple)
         THEN <<Head(sorted)>> \o insert_desc(Tail(sorted), x)
         ELSE <<x>> \o sorted

\* `sorted(verified_tokens, key=lambda x: x["flipping_multiple"], reverse=True)`
RECURSIVE sorted_desc(_, _)
sorted_desc(tokens, acc) ==
    IF tokens = <<>> THEN acc
    ELSE sorted_desc(Tail(tokens), insert_desc(acc, Head(tokens)))

-----------------------------------------------------------------------------
(* Text: lines of a PDF page and table cells are sequences of characters *)

Digits == <<"0","1","2","3","4","5","6","7","8","9">>

is_digit(c) == \E i \in 1..10 : Digits[i] = c
is_upper(c) == \E i \in 1..26 : Uppercase[i] = c
is_lower(c) == \E i \in 1..26 : Lowercase[i] = c

lower_char(c) ==
    IF is_upper(c) THEN Lowercase[CHOOSE i \in 1..26 : Uppercase[i] = c] ELSE c

\* str.lower()
lower(s) == [i \in 1..Len(s) |-> lower_char(s[i])]

\* str.isdigit()
isdigit(s) == s # <<>> /\ \A i \in 1..Len(s) : is_digit(s[i])

\* `needle in haystack`
contains(haystack, needle) ==
    \E i \in 0..(Len(haystack) - Len(needle)) :
        \A j \in 1..Len(needle) : haystack[i + j] = needle[j]

\* \s
is_space(c) == c \in {" ", "\t"}
\* [+-]
is_sign(c) == c \in {"+", "-"}

\* the characters the pattern [^A-Z0-9] leaves alone
in_AZ09(c) == is_upper(c) \/ is_digit(c)

\* `re.sub(r'[^A-Z0-9]', '', str(x).upper())`
sub_non_AZ09(text) == SelectSeq(upper(text), in_AZ09)

-----------------------------------------------------------------------------
(* float(text), str.replace and str.strip *)

digit_value(c) == (CHOOSE i \in 1..10 : Digits[i] = c) - 1

\* the natural number a string of digits denotes (0 for the empty string)
RECURSIVE digits_value(_)
digits_value(ds) ==
    IF ds = <<>> THEN 0
    ELSE 10 * digits_value(SubSeq(ds, 1, Len(ds) - 1)) + digit_value(ds[Len(ds)])

RECURSIVE pow10(_)
pow10(k) == IF k = 0 THEN 1 ELSE 10 * pow10(k - 1)

\* str.replace(ch, '') for a single character
remove_char(text, ch) == SelectSeq(text, LAMBDA c : c # ch)

\* str.strip()
RECURSIVE lstrip(_)
lstrip(text) == IF text # <<>> /\ is_space(Head(text)) THEN lstrip(Tail(text)) ELSE text
RECURSIVE rstrip(_)
rstrip(text) ==
    IF text # <<>> /\ is_space(text[Len(text)])
    THEN rstrip(SubSeq(text, 1, Len(text) - 1)) ELSE text
strip(text) == rstrip(lstrip(text))

Text_nan == <<"n","a","n">>

\* float(text) for the decimal notation [+-]digits[.digits] (at least one
\* digit) and for 'nan' in any letter case; every other text of the model's
\* alphabet makes float() raise ValueError.  `ok` is FALSE for the raise,
\* `nan` marks a NaN.
parse_float(text) ==
    LET t        == strip(text)
        signed   == t # <<>> /\ is_sign(Head(t))
        body     == IF signed THEN Tail(t) ELSE t
        dots     == {i \in 1..Len(body) : body[i] = "."}
        ints     == IF dots = {} THEN body
                    ELSE SubSeq(body, 1, (CHOOSE i \in dots : TRUE) - 1)
        fracs    == IF dots = {} THEN <<>>
                    ELSE SubSeq(body, (CHOOSE i \in dots : TRUE) + 1, Len(body))
        decimal  == /\ Cardinality(dots) <= 1
                    /\ \A i \in 1..Len(body) : is_digit(body[i]) \/ body[i] = "."
                    /\ Len(ints) + Len(fracs) >= 1
        negative == signed /\ Head(t) = "-"
        n        == digits_value(ints \o fracs)
    IN IF lower(body) = Text_nan
       THEN [ok |-> TRUE, nan |-> TRUE, val |-> Rat(0, 1)]
       ELSE IF decimal
       THEN [ok |-> TRUE, nan |-> FALSE,
             val |-> Rat(IF negative THEN 0 - n ELSE n, pow10(Len(fracs)))]
       ELSE [ok |-> FALSE, nan |-> FALSE, val |-> Rat(0, 1)]

-----------------------------------------------------------------------------
(* PDFParser._clean_ticker_strict *)

TICKER_TEXT_MAX == 15
TICKER_LEN_MIN  == 2
TICKER_LEN_MAX  == 12

\* None; a cleaned ticker is never the empty string
NoTicker == <<>>

\* variant: an over-long candidate is cut down to the longest allowed ticker
clean_ticker_truncating(text) ==
    LET cleaned == sub_non_AZ09(text)
    IN IF Len(text) > TICKER_TEXT_MAX THEN NoTicker
       ELSE IF Len(cleaned) > TICKER_LEN_MAX THEN SubSeq(cleaned, 1, TICKER_LEN_MAX)
       ELSE IF TICKER_LEN_MIN <= Len(cleaned) THEN cleaned
       ELSE NoTicker

clean_ticker_strict(text) ==
    IF Len(text) > TICKER_TEXT_MAX THEN NoTicker
    ELSE LET cleaned == sub_non_AZ09(text)
         IN IF TICKER_LEN_MIN <= Len(cleaned) /\ Len(cleaned) <= TICKER_LEN_MAX
            THEN cleaned
            ELSE NoTicker

\* `if clean_current:` - neither None nor the empty string
truthy(x) == x # <<>>

-----------------------------------------------------------------------------
(* PDFParser.FINANCIAL_PATTERN                                              *)
(*                                                                         *)
(* Positions are 1-based; a position p stands in front of character p and  *)
(* Len + 1 is the end of the line.  The pattern has no back-references, so *)
(* the match a backtracking search returns is found by taking, at every    *)
(* choice point, the first alternative in priority order from which the    *)
(* rest of the pattern can still match.                                    *)

\* the character at position p; the empty string past the end of the line
at(l, p) == IF 1 <= p /\ p <= Len(l) THEN l[p] ELSE ""

\* [\d,\.]
is_amount_char(c) == is_digit(c) \/ c \in {",", "."}
\* [kKmMbB]
is_magnitude(c) == c \in {"k", "K", "m", "M", "b", "B"}
\* the ASCII member of the placeholder class; its other members are not ASCII
is_placeholder_dash(c) == c = "-"

RECURSIVE concat_all(_)
concat_all(seqs) == IF seqs = <<>> THEN <<>> ELSE Head(seqs) \o concat_all(Tail(seqs))

\* how many characters from position p on satisfy a class
RECURSIVE run_digits(_, _)
run_digits(l, p) == IF is_digit(at(l, p)) THEN 1 + run_digits(l, p + 1) ELSE 0
RECURSIVE run_amount(_, _)
run_amount(l, p) == IF is_amount_char(at(l, p)) THEN 1 + run_amount(l, p + 1) ELSE 0
RECURSIVE run_space(_, _)
run_space(l, p) == IF is_space(at(l, p)) THEN 1 + run_space(l, p + 1) ELSE 0

\* end positions of a greedy X+ that starts at p and can take `n` characters,
\* longest first
plus_ends(p, n) == [k \in 1..n |-> p + n - k + 1]
\* end positions of a greedy X* : as X+, then the empty match
star_ends(p, n) == Append(plus_ends(p, n), p)
\* end positions of a greedy X? : with the character first, then without
opt_ends(p, present) == IF present THEN <<p + 1, p>> ELSE <<p>>

\* \s+
space_ends(l, p) == plus_ends(p, run_space(l, p))

\* [\d,\.]+[kKmMbB]?
amount_body_ends(l, p) ==
    LET body == plus_ends(p, run_amount(l, p))
    IN concat_all([k \in 1..Len(body) |->
                      opt_ends(body[k], is_magnitude(at(l, body[k])))])

\* (\$?[+-]?[\d,\.]+[kKmMbB]?)
amount_ends(l, p) ==
    LET after_dollar == opt_ends(p, at(l, p) = "$")
        after_sign   == concat_all([k \in 1..Len(after_dollar) |->
                            opt_ends(after_dollar[k], is_sign(at(l, after_dollar[k])))])
    IN concat_all([k \in 1..Len(after_sign) |-> amount_body_ends(l, after_sign[k])])

\* [+\-]?[\d\.\,]+\%?
percent_ends(l, p) ==
    LET after_sign == opt_ends(p, is_sign(at(l, p)))
        body(q)    == plus_ends(q, run_amount(l, q))
        bodies     == concat_all([k \in 1..Len(after_sign) |-> body(after_sign[k])])
    IN concat_all([k \in 1..Len(bodies) |-> opt_ends(bodies[k], at(l, bodies[k]) = "%")])

\* ([+\-]?[\d\.\,]+\%?|[\-...]|N\/A): the three alternatives in order
field_ends(l, p) ==
    percent_ends(l, p)
    \o (IF is_placeholder_dash(at(l, p)) THEN <<p + 1>> ELSE <<>>)
    \o (IF at(l, p) = "N" /\ at(l, p + 1) = "/" /\ at(l, p + 2) = "A"
        THEN <<p + 3>> ELSE <<>>)

\* (?:(field)\s+)? : the ways through the group, each with the position
\* behind it and the end of the captured field (0: the group did not take part)
optional_field(l, p) ==
    LET fields == field_ends(l, p)
    IN concat_all([k \in 1..Len(fields) |->
           LET spaces == space_ends(l, fields[k])
           IN [j \in 1..Len(spaces) |-> [next |-> spaces[j], cap |-> fields[k]]]])
       \o <<[next |-> p, cap |-> 0]>>

\* (\d*\.?\d+)
vtmr_ends(l, p) ==
    LET after_int == star_ends(p, run_digits(l, p))
        after_dot == concat_all([k \in 1..Len(after_int) |->
                         opt_ends(after_int[k], at(l, after_int[k]) = ".")])
    IN concat_all([k \in 1..Len(after_dot) |->
           plus_ends(after_dot[k], run_digits(l, after_dot[k]))])

\* the first element of a sequence that satisfies Ok, and whether there is one
has_where(seq, Ok(_)) == \E i \in 1..Len(seq) : Ok(seq[i])
first_where(seq, Ok(_)) ==
    seq[CHOOSE i \in 1..Len(seq) : Ok(seq[i]) /\ \A j \in 1..(i - 1) : ~Ok(seq[j])]

\* can the rest of the pattern match from position p, entering at ...
\* ... group 5
can_vtmr(l, p) == vtmr_ends(l, p) # <<>>
\* ... the second optional field
can_field4(l, p) == has_where(optional_field(l, p), LAMBDA o : can_vtmr(l, o.next))
\* ... the first optional field
can_field3(l, p) == has_where(optional_field(l, p), LAMBDA o : can_field4(l, o.next))
\* ... the whitespace behind group 2
can_space2(l, p) == has_where(space_ends(l, p), LAMBDA e : can_field3(l, e))
\* ... group 2
can_amount2(l, p) == has_where(amount_ends(l, p), LAMBDA e : can_space2(l, e))
\* ... the whitespace behind group 1
can_space1(l, p) == has_where(space_ends(l, p), LAMBDA e : can_amount2(l, e))
\* ... group 1, i.e. the whole pattern
can_match(l, p) == has_where(amount_ends(l, p), LAMBDA e : can_space1(l, e))

\* text[a:b] for positions a <= b
slice(l, a, b) == SubSeq(l, a, b - 1)

\* None as the value of a group that did not take part
NoGroup == <<"<None>">>

\* fin_match.groups() of the match that starts at p0, given the positions the
\* groups end at and the whitespace runs end at
groups_at(l, p0, e1, p2, e2, p3, f3, f4, e5) ==
    << slice(l, p0, e1),
       slice(l, p2, e2),
       IF f3.cap = 0 THEN NoGroup ELSE slice(l, p3, f3.cap),
       IF f4.cap = 0 THEN NoGroup ELSE slice(l, f3.next, f4.cap),
       slice(l, f4.next, e5) >>

\* the match that starts at p0, followed through the pattern piece by piece:
\* at each piece the first way through it from which the rest can match
match_group5(l, p0, e1, p2, e2, p3, f3, f4) ==
    groups_at(l, p0, e1, p2, e2, p3, f3, f4, Head(vtmr_ends(l, f4.next)))
match_field4(l, p0, e1, p2, e2, p3, f3) ==
    match_group5(l, p0, e1, p2, e2, p3, f3,
                 first_where(optional_field(l, f3.next), LAMBDA o : can_vtmr(l, o.next)))
match_field3(l, p0, e1, p2, e2, p3) ==
    match_field4(l, p0, e1, p2, e2, p3,
                 first_where(optional_field(l, p3), LAMBDA o : can_field4(l, o.next)))
match_space2(l, p0, e1, p2, e2) ==
    match_field3(l, p0, e1, p2, e2,
                 first_where(space_ends(l, e2), LAMBDA e : can_field3(l, e)))
match_amount2(l, p0, e1, p2) ==
    match_space2(l, p0, e1, p2,
                 first_where(amount_ends(l, p2), LAMBDA e : can_space2(l, e)))
match_space1(l, p0, e1) ==
    match_amount2(l, p0, e1,
                  first_where(space_ends(l, e1), LAMBDA e : can_amount2(l, e)))
match_at(l, p0) ==
    match_space1(l, p0, first_where(amount_ends(l, p0), LAMBDA e : can_space1(l, e)))

\* the positions a search tries, in order
search_starts(l) == [p \in 1..(Len(l) + 1) |-> p]

\* FINANCIAL_PATTERN.search(line): whether it matches and fin_match.groups()
search_financial(l) ==
    IF has_where(search_starts(l), LAMBDA p : can_match(l, p))
    THEN [matched |-> TRUE,
          groups  |-> match_at(l, first_where(search_starts(l), LAMBDA p : can_match(l, p)))]
    ELSE [matched |-> FALSE, groups |-> <<>>]

-----------------------------------------------------------------------------
(* oi_score_and_signal, funding_score_and_signal, make_oiss,               *)
(* make_funding_signal                                                     *)

\* float values that are no numbers.  With a zero denominator the strict
\* comparison RatLt orders the infinities as IEEE 754 does and is false for
\* every comparison with NaN.
NaN == [n |-> 0, d |-> 0]
PlusInfinity == [n |-> 1, d |-> 0]
MinusInfinity == [n |-> 0 - 1, d |-> 0]

\* variant: the thresholds themselves count for the higher score
oi_score_and_signal_inclusive(oi_change) ==
    IF RatLeq(Rat(20, 100), oi_change) THEN [score |-> 5, signal |-> "Strong"]
    ELSE IF RatLeq(Rat(10, 100), oi_change) THEN [score |-> 4, signal |-> "Bullish"]
    ELSE IF RatLeq(Rat(0, 100), oi_change) THEN [score |-> 3, signal |-> "Build-Up"]
    ELSE IF RatLeq(Rat(0 - 10, 100), oi_change) THEN [score |-> 2, signal |-> "Weakening"]
    ELSE IF RatLeq(Rat(0 - 20, 100), oi_change) THEN [score |-> 1, signal |-> "Exiting"]
    ELSE [score |-> 0, signal |-> "Exiting"]

oi_score_and_signal(oi_change) ==
    IF RatLt(Rat(20, 100), oi_change) THEN [score |-> 5, signal |-> "Strong"]
    ELSE IF RatLt(Rat(10, 100), oi_change) THEN [score |-> 4, signal |-> "Bullish"]
    ELSE IF RatLt(Rat(0, 100), oi_change) THEN [score |-> 3, signal |-> "Build-Up"]
    ELSE IF RatLt(Rat(0 - 10, 100), oi_change) THEN [score |-> 2, signal |-> "Weakening"]
    ELSE IF RatLt(Rat(0 - 20, 100), oi_change) THEN [score |-> 1, signal |-> "Exiting"]
    ELSE [score |-> 0, signal |-> "Exiting"]

funding_score_and_signal(funding_val) ==
    IF RatLeq(Rat(5, 100), funding_val) THEN [word |-> "Greed", css |-> "oi-strong"]
    ELSE IF RatLt(Rat(0, 100), funding_val) THEN [word |-> "Bullish", css |-> "oi-strong"]
    ELSE IF RatLeq(funding_val, Rat(0 - 5, 100))
         THEN [word |-> "Extreme Fear", css |-> "oi-weak"]
    ELSE IF RatLt(funding_val, Rat(0, 100)) THEN [word |-> "Bearish", css |-> "oi-weak"]
    ELSE [word |-> "Neutral", css |-> ""]

\* What a cell of the funding or oiss column shows.  kind "dash": the text
\* "-"; "raw": the input text handed back; "signal": markup put together
\* from a css class, a sign, a number and a signal word.
Cell(kind, css, sign, value, word, raw) ==
    [kind |-> kind, css |-> css, sign |-> sign, value |-> value, word |-> word,
     raw |-> raw]
DashCell == Cell("dash", "", "", Rat(0, 1), "", <<>>)

Text_dash == <<"-">>
Text_NA   == <<"N","/","A">>

\* the integer nearest to a rational, ties to the even one (format spec .0f)
round_half_even(r) ==
    LET twice == 2 * r.n
        low   == r.n \div r.d
    IN IF twice = (2 * low + 1) * r.d
       THEN (IF low % 2 = 0 THEN low ELSE low + 1)
       ELSE (twice + r.d) \div (2 * r.d)

\* `not text` for an optional group: None or the empty string
is_empty_text(text) == text = NoGroup \/ text = <<>>

make_oiss(oi_percent_str) ==
    IF is_empty_text(oi_percent_str) THEN DashCell
    ELSE LET val    == strip(remove_char(oi_percent_str, "%"))
             parsed == parse_float(val)
         IN IF ~parsed.ok THEN DashCell
            ELSE LET oi_change == RatDiv(parsed.val, Rat(100, 1))
                     scored    == oi_score_and_signal(oi_change)
                     css_class == IF RatLt(Rat(0, 1), oi_change) THEN "oi-strong"
                                  ELSE IF RatLt(oi_change, Rat(0, 1)) THEN "oi-weak"
                                  ELSE ""
                     sign      == IF RatLt(Rat(0, 1), oi_change) THEN "+" ELSE ""
                     percent   == round_half_even(Rat(oi_change.n * 100, oi_change.d))
                 IN Cell("signal", css_class, sign, Rat(percent, 1), scored.signal, <<>>)

make_funding_signal(funding_str) ==
    IF is_empty_text(funding_str) \/ funding_str \in {Text_dash, Text_NA} THEN DashCell
    ELSE LET parsed == parse_float(strip(remove_char(funding_str, "%")))
         IN IF ~parsed.ok THEN Cell("raw", "", "", Rat(0, 1), "", funding_str)
            ELSE LET scored == funding_score_and_signal(parsed.val)
                 IN Cell("signal", scored.css, "", parsed.val, scored.word, <<>>)

-----------------------------------------------------------------------------
(* PDFParser._parse_page_smart: line classification *)

IGNORE_KEYWORDS == {
    <<"p","a","g","e">>,
    <<"c","o","i","n","a","l","y","z","e">>,
    <<"c","o","n","t","r","a","c","t">>,
    <<"f","i","l","t","e","r">>,
    <<"c","o","l","u","m","n">>,
    <<"m","k","t"," ","c","a","p">>,
    <<"v","o","l"," ","2","4","h">>,
    <<"v","t","m","r">>,
    <<"c","o","i","n","s">>,
    <<"a","l","l"," ","c","o","n","t","r","a","c","t","s">>,
    <<"c","u","s","t","o","m"," ","m","e","t","r","i","c","s">>,
    <<"w","a","t","c","h","l","i","s","t","s">> }

\* `any(k in line.lower() for k in cls.IGNORE_KEYWORDS)`
has_ignore_keyword(line) == \E k \in IGNORE_KEYWORDS : contains(lower(line), k)

\* the tuple appended to `financials` for a matching line
financial_tuple(groups) ==
    [mc       |-> remove_char(remove_char(groups[1], "$"), ","),
     vol      |-> remove_char(remove_char(groups[2], "$"), ","),
     vtmr     |-> groups[5],
     oi_str   |-> groups[3],
     fund_str |-> groups[4]]

\* one pass of the `for line in lines` loop behind the keyword test, with
\* fin_match the result of the search on the line
classified_match(line, fin_match, out) ==
    IF fin_match.matched
    THEN IF parse_float(fin_match.groups[5]).ok
         THEN [out EXCEPT !.financials = Append(@, financial_tuple(fin_match.groups))]
         ELSE [out EXCEPT !.raw_text_lines = Append(@, line)]
    ELSE IF ~isdigit(line) /\ Len(line) > 1
         THEN [out EXCEPT !.raw_text_lines = Append(@, line)]
         ELSE out

\* variant: the financial pattern is tried before the ignore keywords
classified_line_figures_first(line, out) ==
    IF search_financial(line).matched
    THEN classified_match(line, search_financial(line), out)
    ELSE IF has_ignore_keyword(line) THEN out
    ELSE classified_match(line, search_financial(line), out)

\* one pass of the loop
classified_line(line, out) ==
    IF has_ignore_keyword(line) THEN out
    ELSE classified_match(line, search_financial(line), out)

\* the `for line in lines` loop: what financials and raw_text_lines hold at
\* its end
RECURSIVE classify_lines(_, _)
classify_lines(lines, out) ==
    IF lines = <<>> THEN out
    ELSE classify_lines(Tail(lines), classified_line(Head(lines), out))

-----------------------------------------------------------------------------
(* PDFParser._parse_page_smart: the pairing loop *)

\* variant: after a pair the cursor moves on by one line only
RECURSIVE pairing_loop_overlapping(_, _, _)
pairing_loop_overlapping(raw_text_lines, i, out) ==
    IF ~(i < Len(raw_text_lines))
    THEN [pairs |-> out.pairs, cursor |-> out.cursor, exit |-> i]
    ELSE LET has_next   == i + 1 < Len(raw_text_lines)
             clean_next == clean_ticker_strict(raw_text_lines[i + 2])
         IN pairing_loop_overlapping(raw_text_lines, i + 1,
                [pairs  |-> IF has_next /\ truthy(clean_next)
                            THEN Append(out.pairs, [name   |-> raw_text_lines[i + 1],
                                                    ticker |-> clean_next])
                            ELSE out.pairs,
                 cursor |-> Append(out.cursor, i)])

\* variant: after a pair the cursor also steps over the line that follows
RECURSIVE pairing_loop_skipping(_, _, _)
pairing_loop_skipping(raw_text_lines, i, out) ==
    IF ~(i < Len(raw_text_lines))
    THEN [pairs |-> out.pairs, cursor |-> out.cursor, exit |-> i]
    ELSE LET has_next   == i + 1 < Len(raw_text_lines)
             clean_next == clean_ticker_strict(raw_text_lines[i + 2])
         IN IF has_next /\ truthy(clean_next)
            THEN pairing_loop_skipping(raw_text_lines, i + 3,
                     [pairs  |-> Append(out.pairs, [name   |-> raw_text_lines[i + 1],
                                                    ticker |-> clean_next]),
                      cursor |-> Append(out.cursor, i)])
            ELSE pairing_loop_skipping(raw_text_lines, i + 1,
                     [pairs |-> out.pairs, cursor |-> Append(out.cursor, i)])

\* variant: only the first branch pairs, so the name line must itself be
\* ticker-shaped
RECURSIVE pairing_loop_first_branch(_, _, _)
pairing_loop_first_branch(raw_text_lines, i, out) ==
    IF ~(i < Len(raw_text_lines))
    THEN [pairs |-> out.pairs, cursor |-> out.cursor, exit |-> i]
    ELSE LET line          == raw_text_lines[i + 1]
             clean_current == clean_ticker_strict(line)
             has_next      == i + 1 < Len(raw_text_lines)
             clean_next    == clean_ticker_strict(raw_text_lines[i + 2])
         IN IF truthy(clean_current) /\ has_next /\ truthy(clean_next)
            THEN pairing_loop_first_branch(raw_text_lines, i + 2,
                     [pairs  |-> Append(out.pairs, [name |-> line, ticker |-> clean_next]),
                      cursor |-> Append(out.cursor, i)])
            ELSE pairing_loop_first_branch(raw_text_lines, i + 1,
                     [pairs |-> out.pairs, cursor |-> Append(out.cursor, i)])

\* `while i < len(raw_text_lines)`: `out` carries token_pairs and the values
\* the cursor i took at the head of the loop; `exit` is the value of i that
\* ended the loop
RECURSIVE pairing_loop(_, _, _)
pairing_loop(raw_text_lines, i, out) ==
    IF ~(i < Len(raw_text_lines))
    THEN [pairs |-> out.pairs, cursor |-> out.cursor, exit |-> i]
    ELSE LET line          == raw_text_lines[i + 1]
             clean_current == clean_ticker_strict(line)
             has_next      == i + 1 < Len(raw_text_lines)
             clean_next    == clean_ticker_strict(raw_text_lines[i + 2])
             seen          == Append(out.cursor, i)
         IN IF truthy(clean_current) /\ has_next /\ truthy(clean_next)
            THEN pairing_loop(raw_text_lines, i + 2,
                     [pairs  |-> Append(out.pairs, [name |-> line, ticker |-> clean_next]),
                      cursor |-> seen])
            ELSE IF has_next
            THEN IF truthy(clean_next)
                 THEN pairing_loop(raw_text_lines, i + 2,
                          [pairs  |-> Append(out.pairs, [name |-> line, ticker |-> clean_next]),
                           cursor |-> seen])
                 ELSE pairing_loop(raw_text_lines, i + 1,
                          [pairs |-> out.pairs, cursor |-> seen])
            ELSE pairing_loop(raw_text_lines, i + 1,
                     [pairs |-> out.pairs, cursor |-> seen])

token_pairs_of(raw_text_lines) ==
    pairing_loop(raw_text_lines, 0, [pairs |-> <<>>, cursor |-> <<>>])

-----------------------------------------------------------------------------
(* PDFParser._parse_page_smart: zipping, and the function as a whole *)

TokenData(ticker, name, market_cap, volume, vtmr, funding, oiss) ==
    [ticker |-> ticker, name |-> name, market_cap |-> market_cap, volume |-> volume,
     vtmr |-> vtmr, funding |-> funding, oiss |-> oiss]

\* the body of `for k in range(limit)`
zipped_token(pair, fin) ==
    LET oiss_val    == IF ~is_empty_text(fin.oi_str) /\ fin.oi_str \notin {Text_dash, Text_NA}
                       THEN make_oiss(fin.oi_str) ELSE DashCell
        funding_val == make_funding_signal(fin.fund_str)
    IN TokenData(pair.ticker, pair.name, fin.mc, fin.vol, parse_float(fin.vtmr).val,
                 funding_val, oiss_val)

min_of(a, b) == IF b < a THEN b ELSE a

\* variant: the pairs are matched with the financial tuples in reverse order
zip_tokens_reversed(token_pairs, financials) ==
    [k \in 1..min_of(Len(token_pairs), Len(financials)) |->
        zipped_token(token_pairs[k],
                     financials[min_of(Len(token_pairs), Len(financials)) + 1 - k])]

zip_tokens(token_pairs, financials) ==
    [k \in 1..min_of(Len(token_pairs), Len(financials)) |->
        zipped_token(token_pairs[k], financials[k])]

\* one call of _parse_page_smart: its locals when it returns, given what
\* the two loops left
paired_locals(lines, classified, paired) ==
    [lines          |-> lines,
     financials     |-> classified.financials,
     raw_text_lines |-> classified.raw_text_lines,
     token_pairs    |-> paired.pairs,
     cursor         |-> paired.cursor,
     exit           |-> paired.exit,
     tokens         |-> zip_tokens(paired.pairs, classified.financials)]

classified_locals(lines, classified) ==
    paired_locals(lines, classified, token_pairs_of(classified.raw_text_lines))

page_locals(lines) ==
    classified_locals(lines,
        classify_lines(lines, [financials |-> <<>>, raw_text_lines |-> <<>>]))

parse_page_smart(lines) == page_locals(lines).tokens

-----------------------------------------------------------------------------
(* PDFParser.extract *)

\* A DataFrame: its column labels and its rows, each row a record over the
\* columns.  pd.DataFrame() has neither.
DataFrame(columns, rows) == [columns |-> columns, rows |-> rows]
EmptyFrame == DataFrame({}, <<>>)

\* df.empty
is_empty_frame(df) == df.columns = {} \/ df.rows = <<>>

TOKEN_COLUMNS == {"ticker", "name", "market_cap", "volume", "vtmr", "funding", "oiss"}

\* `[ln.strip() for ln in raw.split("\n") if ln.strip()]`
RECURSIVE stripped_lines(_)
stripped_lines(raw_lines) ==
    IF raw_lines = <<>> THEN <<>>
    ELSE (IF strip(Head(raw_lines)) # <<>> THEN <<strip(Head(raw_lines))>> ELSE <<>>)
         \o stripped_lines(Tail(raw_lines))

\* variant: a page is parsed together with the last line of the page before
extract_pages_carrying(pages) ==
    [k \in 1..Len(pages) |->
        page_locals(stripped_lines(
            IF k > 1 /\ pages[k - 1] # <<>>
            THEN <<pages[k - 1][Len(pages[k - 1])]>> \o pages[k]
            ELSE pages[k]))]

\* the calls of _parse_page_smart made by the `for page in reader.pages` loop
extract_pages(pages) ==
    [k \in 1..Len(pages) |-> page_locals(stripped_lines(pages[k]))]

\* `data` after the loop: data.extend(page_data) for every page in turn
RECURSIVE extended_data(_)
extended_data(calls) ==
    IF calls = <<>> THEN <<>> ELSE Head(calls).tokens \o extended_data(Tail(calls))

\* the lines after `if not data`: the frame built from data, its ticker
\* column cleaned once more and rows with a ticker of one character or less dropped
frame_of(data) ==
    IF data = <<>> THEN EmptyFrame
    ELSE LET cleaned == [k \in 1..Len(data) |->
                            [data[k] EXCEPT !.ticker = sub_non_AZ09(@)]]
         IN DataFrame(TOKEN_COLUMNS, SelectSeq(cleaned, LAMBDA t : Len(t.ticker) > 1))

\* A futures PDF: whether pypdf is installed, whether it can read the file,
\* and for each page the lines of its extracted text.  The result carries
\* the DataFrame returned and the per-page calls behind it.
extracted(calls) == [calls |-> calls, df |-> frame_of(extended_data(calls))]

extract(pdf) ==
    IF ~pdf.pypdf \/ ~pdf.readable THEN [calls |-> <<>>, df |-> EmptyFrame]
    ELSE extracted(extract_pages(pdf.pages))

-----------------------------------------------------------------------------
(* DataProcessor.load_spot *)

Label_ticker == <<"t","i","c","k","e","r">>
Label_symbol == <<"s","y","m","b","o","l">>
Label_token == <<"t","o","k","e","n">>
Label_coin == <<"c","o","i","n">>
Label_spot_vtmr == <<"s","p","o","t","_","v","t","m","r">>
Label_spot_flip == <<"s","p","o","t","_","f","l","i","p">>
Label_flipping_multiple == <<"f","l","i","p","p","i","n","g","_","m","u","l","t","i","p","l","e">>
Label_market_cap == <<"m","a","r","k","e","t","_","c","a","p">>
Label_marketcap == <<"m","a","r","k","e","t","c","a","p">>
Label_spot_mc == <<"s","p","o","t","_","m","c">>
Label_volume_24h == <<"v","o","l","u","m","e","_","2","4","h">>
Label_volume == <<"v","o","l","u","m","e">>
Label_spot_vol == <<"s","p","o","t","_","v","o","l">>
Label_vtmr == <<"v","t","m","r">>
Label_rank == <<"#">>
Label_name == <<"n","a","m","e">>

\* Column labels of DataFrames are kept as plain strings; this table gives
\* the string for each label text that occurs in the model.
LabelNames ==
    << <<Label_ticker, "ticker">>,
       <<Label_symbol, "symbol">>,
       <<Label_token, "token">>,
       <<Label_coin, "coin">>,
       <<Label_spot_vtmr, "spot_vtmr">>,
       <<Label_spot_flip, "spot_flip">>,
       <<Label_flipping_multiple, "flipping_multiple">>,
       <<Label_market_cap, "market_cap">>,
       <<Label_marketcap, "marketcap">>,
       <<Label_spot_mc, "spot_mc">>,
       <<Label_volume_24h, "volume_24h">>,
       <<Label_volume, "volume">>,
       <<Label_spot_vol, "spot_vol">>,
       <<Label_vtmr, "vtmr">>,
       <<Label_rank, "#">>,
       <<Label_name, "name">> >>

label_name(text) ==
    LabelNames[CHOOSE i \in 1..Len(LabelNames) : LabelNames[i][1] = text][2]

\* str.replace(' ', '_')
spaces_to_underscores(text) == [i \in 1..Len(text) |-> IF text[i] = " " THEN "_" ELSE text[i]]

\* `c.lower().replace(' ', '_')`
normalized_label(c) == spaces_to_underscores(lower(c))

\* col_map, as pairs (old label, new label)
col_map ==
    { <<Label_ticker, Label_ticker>>,
      <<Label_symbol, Label_ticker>>,
      <<Label_spot_vtmr, Label_spot_flip>>,
      <<Label_flipping_multiple, Label_spot_flip>>,
      <<Label_market_cap, Label_spot_mc>>,
      <<Label_marketcap, Label_spot_mc>>,
      <<Label_volume_24h, Label_spot_vol>>,
      <<Label_volume, Label_spot_vol>> }

\* df.rename(columns=mapping, errors='ignore') on the labels
renamed(columns, mapping) ==
    [i \in 1..Len(columns) |->
        IF \E m \in mapping : m[1] = columns[i]
        THEN (CHOOSE m \in mapping : m[1] = columns[i])[2]
        ELSE columns[i]]

has_label(columns, label) == \E i \in 1..Len(columns) : columns[i] = label

Text_sym  == <<"s","y","m">>
Text_tick == <<"t","i","c","k">>
Text_tok  == <<"t","o","k">>

\* `'sym' in col or 'tick' in col or 'tok' in col`
looks_like_ticker(col) ==
    contains(col, Text_sym) \/ contains(col, Text_tick) \/ contains(col, Text_tok)

\* the `if 'ticker' not in df.columns` block: the first column whose label
\* looks like a ticker column is renamed, and every column of that label with it
fuzzy_renamed(columns) ==
    IF has_label(columns, Label_ticker) THEN columns
    ELSE IF ~\E i \in 1..Len(columns) : looks_like_ticker(columns[i]) THEN columns
    ELSE LET first == CHOOSE i \in 1..Len(columns) :
                         /\ looks_like_ticker(columns[i])
                         /\ \A j \in 1..(i - 1) : ~looks_like_ticker(columns[j])
         IN renamed(columns, {<<columns[first], Label_ticker>>})

\* A spot file: whether pandas can read a table from it, the labels of the
\* table's columns and its rows.  load_spot(file) is the DataFrame returned.
load_spot(file) ==
    IF ~file.readable THEN EmptyFrame
    ELSE LET lowered == [i \in 1..Len(file.columns) |-> normalized_label(file.columns[i])]
             columns == fuzzy_renamed(renamed(lowered, col_map))
             names   == {label_name(columns[i]) : i \in 1..Len(columns)}
             cell(row, name) ==
                 LET value == row[CHOOSE i \in 1..Len(columns) : label_name(columns[i]) = name]
                 IN IF name = "ticker" THEN sub_non_AZ09(value) ELSE value
         IN DataFrame(names,
                      [r \in 1..Len(file.rows) |-> [name \in names |-> cell(file.rows[r], name)]])

-----------------------------------------------------------------------------
(* DataProcessor.generate_html_report: the three tables *)

\* `valid_futures['vtmr'] >= 0.50` and `spot_only['flip_numeric'] >= 0.50`
FUTURES_VTMR_MIN == Rat(1, 2)
SPOT_FLIP_MIN    == Rat(1, 2)

\* f"{x:.1f}x": the number of tenths shown for x
vtmr_display(x) == round_half_even(Rat(10 * x.n, x.d))

\* a row with one more column
with_column(row, name, value) ==
    [c \in DOMAIN row \cup {name} |-> IF c = name THEN value ELSE row[c]]

\* variant: every futures row is kept, whatever its vtmr
valid_futures_unfiltered(f_df) ==
    IF "vtmr" \in f_df.columns
    THEN DataFrame(f_df.columns \cup {"vtmr_display"},
                   [k \in 1..Len(f_df.rows) |->
                       with_column(f_df.rows[k], "vtmr_display",
                                   vtmr_display(f_df.rows[k].vtmr))])
    ELSE f_df

\* valid_futures after the try block; the vtmr column holds floats, so the
\* comparison does not raise
valid_futures_of(f_df) ==
    IF "vtmr" \in f_df.columns
    THEN LET kept == SelectSeq(f_df.rows,
                               LAMBDA f : RatLeq(FUTURES_VTMR_MIN, f.vtmr))
         IN DataFrame(f_df.columns \cup {"vtmr_display"},
                      [k \in 1..Len(kept) |->
                          with_column(kept[k], "vtmr_display", vtmr_display(kept[k].vtmr))])
    ELSE f_df

\* df[column], as the set of its values
column_values(df, column) == {df.rows[k][column] : k \in 1..Len(df.rows)}

\* The labels of pd.merge(left, right, on='ticker', suffixes=('_spot', '_fut')):
\* a label found on both sides gets the side's suffix, any other keeps its
\* own.  A label is a name with a suffix, "" for none.
Column(name, side) == [name |-> name, side |-> side]
merged_columns(left, right) ==
    LET both == (left \cap right) \ {"ticker"}
    IN {Column(c, "") : c \in (left \cup right) \ both}
       \cup {Column(c, "_spot") : c \in both}
       \cup {Column(c, "_fut") : c \in both}

\* The rows of the inner merge, in the order of the left keys: a merged row
\* is kept as its key, the left row and the right row it was joined from.
RECURSIVE merged_rows(_, _)
merged_rows(left, right) ==
    IF left = <<>> THEN <<>>
    ELSE LET s       == Head(left)
             matches == SelectSeq(right, LAMBDA f : f.ticker = s.ticker)
         IN [k \in 1..Len(matches) |-> [ticker |-> s.ticker, spot |-> s, fut |-> matches[k]]]
            \o merged_rows(Tail(left), right)

\* sort_values(..., ascending=False) on rows given with their sort keys;
\* rows of equal key keep their order, as they do in tables of this size
RECURSIVE sort_values_desc(_)
sort_values_desc(keyed) ==
    IF keyed = <<>> THEN <<>>
    ELSE LET rest   == sort_values_desc(Tail(keyed))
             x      == Head(keyed)
             higher == Cardinality({i \in 1..Len(rest) : RatLt(x.key, rest[i].key)})
         IN SubSeq(rest, 1, higher) \o <<x>> \o SubSeq(rest, higher + 1, Len(rest))

rows_of(keyed) == [k \in 1..Len(keyed) |-> keyed[k].row]

\* `merged`, sorted when the merge left a column labelled 'vtmr'
both_markets_of(s_df, valid_futures) ==
    LET columns == merged_columns(s_df.columns, valid_futures.columns)
        rows    == merged_rows(s_df.rows, valid_futures.rows)
    IN IF Column("vtmr", "") \in columns
       THEN DataFrame(columns,
                      rows_of(sort_values_desc(
                          [k \in 1..Len(rows) |-> [key |-> rows[k].fut.vtmr, row |-> rows[k]]])))
       ELSE DataFrame(columns, rows)

\* `valid_futures[~valid_futures['ticker'].isin(spot_df['ticker'])]`, sorted
futures_only_of(s_df, valid_futures) ==
    LET rows == SelectSeq(valid_futures.rows,
                          LAMBDA f : f.ticker \notin column_values(s_df, "ticker"))
    IN IF "vtmr" \in valid_futures.columns
       THEN DataFrame(valid_futures.columns,
                      rows_of(sort_values_desc(
                          [k \in 1..Len(rows) |-> [key |-> rows[k].vtmr, row |-> rows[k]]])))
       ELSE DataFrame(valid_futures.columns, rows)

\* variant: the spot table as it is, tickers found in `merged` included
spot_only_unfiltered(s_df, merged) == s_df

\* `spot_df[~spot_df['ticker'].isin(merged['ticker'])]`
spot_only_rows(s_df, merged) ==
    DataFrame(s_df.columns,
              SelectSeq(s_df.rows,
                        LAMBDA r : r.ticker \notin column_values(merged, "ticker")))

\* `.astype(str).str.replace('x', '', case=False)` on one cell
flip_text(cell) == remove_char(remove_char(cell, "x"), "X")

\* the `if 'spot_flip' in spot_only.columns` block: when a cell cannot be
\* read as a float the except clause leaves spot_only as it was
spot_only_by_flip(spot_only) ==
    IF "spot_flip" \notin spot_only.columns THEN spot_only
    ELSE LET flips == [k \in 1..Len(spot_only.rows) |->
                          parse_float(flip_text(spot_only.rows[k].spot_flip))]
         IN IF \E k \in 1..Len(flips) : ~flips[k].ok THEN spot_only
            ELSE LET keyed == [k \in 1..Len(flips) |->
                                  [key |-> flips[k].val, nan |-> flips[k].nan,
                                   row |-> with_column(spot_only.rows[k], "flip_numeric",
                                                       IF flips[k].nan THEN Text_nan
                                                       ELSE flips[k].val)]]
                     kept  == SelectSeq(keyed, LAMBDA x : ~x.nan /\ RatLeq(SPOT_FLIP_MIN, x.key))
                 IN DataFrame(spot_only.columns \cup {"flip_numeric"},
                              rows_of(sort_values_desc(kept)))

\* What generate_html_report comes to: "none" for the None of empty inputs,
\* "raised" when pd.merge finds no 'ticker' column to join on (KeyError),
\* "html" for the page, with the three tables put into it.
Report(state, both_markets, futures_only, spot_only) ==
    [state |-> state, both_markets |-> both_markets, futures_only |-> futures_only,
     spot_only |-> spot_only]

\* variant: the spot table is joined with every futures row and the vtmr
\* filter is applied to the join, so spot_only is computed against the
\* unfiltered join
generate_html_report_join_first(f_df, s_df) ==
    IF is_empty_frame(f_df) \/ is_empty_frame(s_df)
    THEN Report("none", EmptyFrame, EmptyFrame, EmptyFrame)
    ELSE LET valid_futures == valid_futures_of(f_df)
         IN IF "ticker" \notin s_df.columns \/ "ticker" \notin valid_futures.columns
            THEN Report("raised", EmptyFrame, EmptyFrame, EmptyFrame)
            ELSE LET joined == both_markets_of(s_df, valid_futures_unfiltered(f_df))
                 IN Report("html",
                           DataFrame(joined.columns,
                                     SelectSeq(joined.rows,
                                         LAMBDA m : RatLeq(FUTURES_VTMR_MIN, m.fut.vtmr))),
                           futures_only_of(s_df, valid_futures),
                           spot_only_by_flip(spot_only_rows(s_df, joined)))

generate_html_report(f_df, s_df) ==
    IF is_empty_frame(f_df) \/ is_empty_frame(s_df)
    THEN Report("none", EmptyFrame, EmptyFrame, EmptyFrame)
    ELSE LET valid_futures == valid_futures_of(f_df)
         IN IF "ticker" \notin s_df.columns \/ "ticker" \notin valid_futures.columns
            THEN Report("raised", EmptyFrame, EmptyFrame, EmptyFrame)
            ELSE LET merged == both_markets_of(s_df, valid_futures)
                 IN Report("html", merged,
                           futures_only_of(s_df, valid_futures),
                           spot_only_by_flip(spot_only_rows(s_df, merged)))

-----------------------------------------------------------------------------
(* Inputs *)

SeqsUpTo(S, n) == UNION {[1..k -> S] : k \in 0..n}

Sym_abc  == <<"a","b","c">>
Sym_XYZ  == <<"X","Y","Z">>
Sym_usdt == <<"u","s","d","t">>

\* what the endpoints serve during a spot cycle
SpotItems ==
    {Item("ok", s, q[1], q[2]) :
        s \in {Sym_abc, Sym_XYZ},
        q \in {<<100, 50>>, <<120, 60>>, <<1200, 900>>}}

\* an endpoint whose first page carries `items` and whose other pages are empty
FirstPageApi(p, items) ==
    [k \in 1..PagesOf(p) |-> IF k = 1 THEN Page("ok", "ok", items) ELSE QuietPage]

Settings(a, b, c) == [min_vtmr |-> a, max_vtmr |-> b, min_largecap_vtmr |-> c]

SpotSettings ==
    { Settings(NoneVal, NoneVal, NoneVal),
      Settings(NumVal(3, 4), BlankVal, NumVal(1, 2)),
      Settings(NumVal(1, 2), NumVal(3, 5), JunkVal) }

UserKeys(api, settings) == [api |-> api, engine_settings |-> settings]

AllKeys == [p \in ProviderSet |-> "k1"]

SpotUserKeys == {UserKeys(AllKeys, s) : s \in SpotSettings}

\* no endpoint's listing is fixed beforehand
NoListing == [p \in ProviderSet |-> <<>>]

IdleProbe ==
    [state |-> "idle", provider |-> "CG",
     keys |-> UserKeys(AllKeys, Settings(NoneVal, NoneVal, NoneVal)),
     api |-> <<>>, out |-> [tokens |-> <<>>, excepted |-> {}, requests |-> 0]]

-----------------------------------------------------------------------------
(* run_background_task and its worker thread *)

Users == {"u1", "u2"}

\* calls of run_background_task
MaxTasks == 2
\* lines a target function prints
MaxPrints == 1

TaskIds == 1..MaxTasks

\* an entry of USER_PROGRESS; NoProgress stands for a user without one
Progress(percent, text, status) == [percent |-> percent, text |-> text, status |-> status]
NoProgress == Progress(0, "", "none")

\* `USER_PROGRESS[user_id] = {"percent": 5, ...}` inside `with LOCK`
initial_progress == Progress(5, "Initializing Engine...", "active")

\* update_progress(user_id, percent, text, status): the user's entry is
\* replaced
update_progress(progress, user_id, percent, text, status) ==
    [progress EXCEPT ![user_id] = Progress(percent, text, status)]

\* variant: the except clause reports the error and leaves the progress alone
worker_update_silent(progress, user_id, raised) ==
    IF raised THEN [progress |-> progress, wrote |-> "none"]
    ELSE [progress |-> update_progress(progress, user_id, 100, "Analysis Complete",
                                       "success"),
          wrote    |-> "success"]

\* the update_progress call that ends worker(): the one of the try block
\* when target_func returned, the one of the except clause when it raised;
\* USER_PROGRESS afterwards and the status written
worker_update(progress, user_id, raised) ==
    IF raised
    THEN [progress |-> update_progress(progress, user_id, 0, "Error Occurred", "error"),
          wrote    |-> "error"]
    ELSE [progress |-> update_progress(progress, user_id, 100, "Analysis Complete",
                                       "success"),
          wrote    |-> "success"]

\* One call of run_background_task.  pc: "unused" before the call,
\* "initialized" after the `with LOCK` block, "running" once thread.start()
\* has run and target_func executes, "returned" or "raised" when target_func
\* has ended, "finished" when worker() has returned.  wrote: the status of
\* the worker's last update_progress call.
Worker(user, position, prints, wrote) ==
    [user |-> user, pc |-> position, prints |-> prints, wrote |-> wrote]
UnusedWorker == Worker("", "unused", 0, "none")

TasksIdle ==
    /\ USER_LOGS = [u \in Users |-> <<>>]
    /\ USER_PROGRESS = [u \in Users |-> NoProgress]
    /\ workers = [k \in TaskIds |-> UnusedWorker]

-----------------------------------------------------------------------------
(* run_futures_analysis: states before it starts, and the spot cycle at rest *)

Pdf(pypdf, readable, pages) == [pypdf |-> pypdf, readable |-> readable, pages |-> pages]

\* a spot file: whether a table can be read from it, the table's column
\* labels in file order and its rows as tuples of cells in the same order
FileTable(readable, columns, rows) ==
    [readable |-> readable, columns |-> columns, rows |-> rows]

NoReport == [state |-> "pending", both_markets |-> EmptyFrame,
             futures_only |-> EmptyFrame, spot_only |-> EmptyFrame]

FuturesIdle ==
    /\ futures_pdf = Pdf(TRUE, TRUE, <<>>)
    /\ page_calls = <<>>
    /\ futures_df = EmptyFrame
    /\ spot_file = FileTable(TRUE, <<>>, <<>>)
    /\ spot_df = EmptyFrame
    /\ report = NoReport
    /\ job = "idle"
    /\ oi_changes = <<>>
    /\ oi_scores = <<>>

SpotIdle ==
    /\ user_keys = UserKeys(AllKeys, Settings(NoneVal, NoneVal, NoneVal))
    /\ future = [p \in ProviderSet |-> Running]
    /\ completed = <<>>
    /\ collected = 0
    /\ results = <<>>
    /\ pc = "idle"
    /\ all_data = <<>>
    /\ verified_tokens = <<>>
    /\ hot_tokens = <<>>
    /\ probe = IdleProbe
    /\ market = {}
    /\ clock = 0
    /\ listing = NoListing
    /\ TasksIdle

-----------------------------------------------------------------------------
(* The spot cycle *)

Init ==
    /\ user_keys \in SpotUserKeys
    /\ future = [p \in ProviderSet |-> Running]
    /\ completed = <<>>
    /\ collected = 0
    /\ results = <<>>
    /\ pc = "fetching"
    /\ all_data = <<>>
    /\ verified_tokens = <<>>
    /\ hot_tokens = <<>>
    /\ probe = IdleProbe
    /\ market = SpotItems
    /\ clock = 0
    /\ listing = NoListing
    /\ FuturesIdle
    /\ TasksIdle

\* snapshots the cycle's returned tasks hold so far
RECURSIVE held(_)
held(ps) ==
    IF ps = {} THEN 0
    ELSE LET p == CHOOSE q \in ps : TRUE
         IN Len(future[p].result) + held(ps \ {p})

\* a worker thread runs its fetcher to the end and the future completes
TaskReturn(p) ==
    /\ pc = "fetching"
    /\ future[p].state = "running"
    /\ \E items \in SeqsUpTo(market, MaxSnapshots - held(ProviderSet)) :
          LET out == fetch(p, FirstPageApi(p, items), user_keys)
          IN future' = [future EXCEPT ![p] =
                           [state |-> "returned", result |-> out.tokens,
                            requests |-> out.requests, done_at |-> clock]]
    /\ completed' = Append(completed, p)
    /\ UNCHANGED <<user_keys, collected, results, pc, all_data, verified_tokens,
                   hot_tokens, probe, market, clock, futures_vars, listing, task_vars>>

\* a worker thread's task ends with an exception
TaskRaise(p) ==
    /\ pc = "fetching"
    /\ future[p].state = "running"
    /\ future' = [future EXCEPT ![p] = [state |-> "raised", result |-> <<>>,
                                        requests |-> 0, done_at |-> clock]]
    /\ completed' = Append(completed, p)
    /\ UNCHANGED <<user_keys, collected, results, pc, all_data, verified_tokens,
                   hot_tokens, probe, market, clock, futures_vars, listing, task_vars>>

\* the main thread takes the next completed future from as_completed
Collect ==
    /\ pc = "fetching"
    /\ collected < Len(completed)
    /\ LET got == collect_future(future[completed[collected + 1]], results)
       IN /\ results' = got.results
          /\ pc' = IF got.crashed THEN "crashed" ELSE pc
    /\ collected' = collected + 1
    /\ UNCHANGED <<user_keys, future, completed, all_data, verified_tokens,
                   hot_tokens, probe, market, clock, futures_vars, listing, task_vars>>

\* fetch_all_sources returns; grouping, the verification loop and the sort run
ProcessResults ==
    /\ pc = "fetching"
    /\ collected = Len(Providers)
    /\ LET groups   == group_by_symbol(results, <<>>)
           verified == verify_all(groups, user_keys)
       IN /\ all_data' = groups
          /\ verified_tokens' = verified
          /\ hot_tokens' = sorted_desc(verified, <<>>)
    /\ pc' = "done"
    /\ UNCHANGED <<user_keys, future, completed, collected, results, probe,
                   market, clock, futures_vars, listing, task_vars>>

Next ==
    \/ \E p \in ProviderSet : TaskReturn(p)
    \/ \E p \in ProviderSet : TaskRaise(p)
    \/ Collect
    \/ ProcessResults

Spec == Init /\ [][Next]_vars

-----------------------------------------------------------------------------
(* One fetcher call in isolation *)

ProbeItems ==
    {Item("ok", Sym_abc, q[1], q[2]) : q \in {<<0, 50>>, <<100, 40>>, <<100, 50>>}}
    \cup {Item("ok", Sym_usdt, 100, 50),
          Item("badnum", Sym_abc, 0, 0), Item("badnum", Sym_usdt, 0, 0),
          Item("nondict", <<>>, 0, 0)}

\* CoinGecko is also queried without a key; the other two always send theirs
KeyedStatuses == {"ok", "denied", "error"}
KeylessStatuses(p) == IF p = "CG" THEN {"ok", "error"} ELSE {"ok"}

ProbePages(p, n) ==
    {Page(a, b, items) :
        a \in KeyedStatuses, b \in KeylessStatuses(p), items \in SeqsUpTo(market, n)}

\* an endpoint whose first two pages (its only page, for LiveCoinWatch) are
\* `first` and `second` and whose later pages are empty
TwoPageApi(p, first, second) ==
    [k \in 1..PagesOf(p) |-> IF k = 1 THEN first ELSE IF k = 2 THEN second ELSE QuietPage]

SecondPages(p, first) ==
    IF PagesOf(p) = 1 THEN {QuietPage}
    ELSE ProbePages(p, MaxProbeItems - Len(first.items))

ProbeUserKeys(p) ==
    {UserKeys([AllKeys EXCEPT ![p] = k], Settings(NoneVal, NoneVal, NoneVal)) :
        k \in {Absent, "", Placeholder(p), "k1"}}
    \cup {UserKeys(AllKeys, Settings(NumVal(3, 4), NoneVal, NumVal(1, 4)))}

IdleProbes ==
    {[IdleProbe EXCEPT !.provider = p, !.keys = k] :
        p \in ProviderSet, k \in UNION {ProbeUserKeys(q) : q \in ProviderSet}}

InitFetch ==
    /\ user_keys = UserKeys(AllKeys, Settings(NoneVal, NoneVal, NoneVal))
    /\ future = [p \in ProviderSet |-> Running]
    /\ completed = <<>>
    /\ collected = 0
    /\ results = <<>>
    /\ pc = "idle"
    /\ all_data = <<>>
    /\ verified_tokens = <<>>
    /\ hot_tokens = <<>>
    /\ probe \in {pr \in IdleProbes : pr.keys \in ProbeUserKeys(pr.provider)}
    /\ market = ProbeItems
    /\ clock = 0
    /\ listing = NoListing
    /\ FuturesIdle
    /\ TasksIdle

\* fetch_coingecko / fetch_coinmarketcap / fetch_livecoinwatch runs from its
\* first line to its return against what the endpoint serves
ProbeCall ==
    /\ probe.state = "idle"
    /\ \E first \in ProbePages(probe.provider, MaxProbeItems) :
         \E second \in SecondPages(probe.provider, first) :
            LET api == TwoPageApi(probe.provider, first, second)
            IN probe' = [probe EXCEPT !.state = "returned", !.api = api,
                                      !.out = fetch(probe.provider, api, probe.keys)]
    /\ UNCHANGED <<user_keys, future, completed, collected, results, pc,
                   all_data, verified_tokens, hot_tokens, market, clock, futures_vars, listing, task_vars>>

NextFetch == ProbeCall

SpecFetch == InitFetch /\ [][NextFetch]_vars

-----------------------------------------------------------------------------
(* The spot cycle against the clock, for users with and without API keys *)

\* `f.result(timeout=60)`
RESULT_TIMEOUT == 60

TimedItems == {Item("ok", Sym_abc, 100, 50)}

\* every key present, or one provider's key absent, empty or the placeholder
TimedUserKeys ==
    UNION {{UserKeys([AllKeys EXCEPT ![p] = k], Settings(NoneVal, NoneVal, NoneVal)) :
               k \in {Absent, "", Placeholder(p), "k1"}} : p \in ProviderSet}

InitTimed ==
    /\ user_keys \in TimedUserKeys
    /\ future = [p \in ProviderSet |-> Running]
    /\ completed = <<>>
    /\ collected = 0
    /\ results = <<>>
    /\ pc = "fetching"
    /\ all_data = <<>>
    /\ verified_tokens = <<>>
    /\ hot_tokens = <<>>
    /\ probe = IdleProbe
    /\ market = TimedItems
    /\ clock = 0
    /\ listing = NoListing
    /\ FuturesIdle
    /\ TasksIdle

\* time passes while the main thread is inside the `with ThreadPoolExecutor`
\* block
Tick ==
    /\ pc = "fetching"
    /\ clock < MaxTicks * ClockStep
    /\ clock' = clock + ClockStep
    /\ UNCHANGED <<user_keys, future, completed, collected, results, pc,
                   all_data, verified_tokens, hot_tokens, probe, market, futures_vars, listing, task_vars>>

NextTimed ==
    \/ \E p \in ProviderSet : TaskReturn(p)
    \/ \E p \in ProviderSet : TaskRaise(p)
    \/ Collect
    \/ ProcessResults
    \/ Tick

SpecTimed == InitTimed /\ [][NextTimed]_vars

-----------------------------------------------------------------------------
(* The spot cycle with each endpoint's listing fixed when the cycle starts *)

\* elements an endpoint lists for one coin
MaxListed == 1

\* one coin with a ratio of 0.40, of 0.50 and of 0.75
ListedItems ==
    {Item("ok", Sym_abc, q[1], q[2]) : q \in {<<100, 40>>, <<100, 50>>, <<120, 90>>}}

InitListed ==
    /\ user_keys \in SpotUserKeys
    /\ future = [p \in ProviderSet |-> Running]
    /\ completed = <<>>
    /\ collected = 0
    /\ results = <<>>
    /\ pc = "fetching"
    /\ all_data = <<>>
    /\ verified_tokens = <<>>
    /\ hot_tokens = <<>>
    /\ probe = IdleProbe
    /\ market = ListedItems
    /\ clock = 0
    /\ listing \in [ProviderSet -> SeqsUpTo(ListedItems, MaxListed)]
    /\ FuturesIdle
    /\ TasksIdle

\* a worker thread runs its fetcher against its endpoint's listing and the
\* future completes
TaskReturnListed(p) ==
    /\ pc = "fetching"
    /\ future[p].state = "running"
    /\ \E out \in {fetch(p, FirstPageApi(p, listing[p]), user_keys)} :
          future' = [future EXCEPT ![p] =
                        [state |-> "returned", result |-> out.tokens,
                         requests |-> out.requests, done_at |-> clock]]
    /\ completed' = Append(completed, p)
    /\ UNCHANGED <<user_keys, collected, results, pc, all_data, verified_tokens,
                   hot_tokens, probe, market, clock, futures_vars, listing, task_vars>>

NextListed ==
    \/ \E p \in ProviderSet : TaskReturnListed(p)
    \/ \E p \in ProviderSet : TaskRaise(p)
    \/ Collect
    \/ ProcessResults

SpecListed == InitListed /\ [][NextListed]_vars

-----------------------------------------------------------------------------
(* /run-spot and /run-advanced: run_background_task for the session's user *)

InitTasks ==
    /\ SpotIdle
    /\ FuturesIdle

\* run_spot or run_advanced calls run_background_task: the `with LOCK` block
BeginTask(u, k) ==
    /\ workers[k].pc = "unused"
    /\ \A j \in 1..(k - 1) : workers[j].pc # "unused"
    /\ USER_LOGS' = [USER_LOGS EXCEPT ![u] = <<>>]
    /\ USER_PROGRESS' = [USER_PROGRESS EXCEPT ![u] = initial_progress]
    /\ workers' = [workers EXCEPT ![k] = Worker(u, "initialized", 0, "none")]
    /\ UNCHANGED <<user_keys, future, completed, collected, results, pc, all_data,
                   verified_tokens, hot_tokens, probe, market, clock, listing,
                   futures_vars>>

\* thread.start(): worker() sets the thread's name, reads the user's keys
\* and calls target_func
StartThread(k) ==
    /\ workers[k].pc = "initialized"
    /\ workers' = [workers EXCEPT ![k].pc = "running"]
    /\ UNCHANGED <<user_keys, future, completed, collected, results, pc, all_data,
                   verified_tokens, hot_tokens, probe, market, clock, listing,
                   futures_vars, USER_LOGS, USER_PROGRESS>>

\* target_func prints a line, which is captured for the user its thread is
\* named after
TargetPrint(k) ==
    /\ workers[k].pc = "running"
    /\ workers[k].prints < MaxPrints
    /\ USER_LOGS' = [USER_LOGS EXCEPT ![workers[k].user] = Append(@, k)]
    /\ workers' = [workers EXCEPT ![k].prints = @ + 1]
    /\ UNCHANGED <<user_keys, future, completed, collected, results, pc, all_data,
                   verified_tokens, hot_tokens, probe, market, clock, listing,
                   futures_vars, USER_PROGRESS>>

\* target_func returns
TargetReturn(k) ==
    /\ workers[k].pc = "running"
    /\ workers' = [workers EXCEPT ![k].pc = "returned"]
    /\ UNCHANGED <<user_keys, future, completed, collected, results, pc, all_data,
                   verified_tokens, hot_tokens, probe, market, clock, listing,
                   futures_vars, USER_LOGS, USER_PROGRESS>>

\* target_func raises an Exception
TargetRaise(k) ==
    /\ workers[k].pc = "running"
    /\ workers' = [workers EXCEPT ![k].pc = "raised"]
    /\ UNCHANGED <<user_keys, future, completed, collected, results, pc, all_data,
                   verified_tokens, hot_tokens, probe, market, clock, listing,
                   futures_vars, USER_LOGS, USER_PROGRESS>>

\* the rest of worker(): increment_global_stat and the update_progress of
\* the try block, or the except clause
WorkerEnd(k) ==
    /\ workers[k].pc \in {"returned", "raised"}
    /\ \E updated \in {worker_update(USER_PROGRESS, workers[k].user,
                                     workers[k].pc = "raised")} :
          /\ USER_PROGRESS' = updated.progress
          /\ workers' = [workers EXCEPT ![k].pc = "finished", ![k].wrote = updated.wrote]
    /\ UNCHANGED <<user_keys, future, completed, collected, results, pc, all_data,
                   verified_tokens, hot_tokens, probe, market, clock, listing,
                   futures_vars, USER_LOGS>>

NextTasks ==
    \/ \E u \in Users, k \in TaskIds : BeginTask(u, k)
    \/ \E k \in TaskIds : StartThread(k)
    \/ \E k \in TaskIds : TargetPrint(k)
    \/ \E k \in TaskIds : TargetReturn(k)
    \/ \E k \in TaskIds : TargetRaise(k)
    \/ \E k \in TaskIds : WorkerEnd(k)

SpecTasks == InitTasks /\ [][NextTasks]_vars

\* a started thread is scheduled, target_func ends, and worker() runs on to
\* its end
SpecTasksFair ==
    /\ InitTasks
    /\ [][NextTasks]_vars
    /\ \A k \in TaskIds :
          /\ WF_vars(StartThread(k))
          /\ WF_vars(TargetReturn(k) \/ TargetRaise(k))
          /\ WF_vars(WorkerEnd(k))

-----------------------------------------------------------------------------
(* PDFParser.extract on an uploaded PDF *)

Line_Bitcoin  == <<"B","i","t","c","o","i","n">>
Line_BTC      == <<"B","T","C">>
Line_Ethereum == <<"E","t","h","e","r","e","u","m">>
Line_ETH      == <<"E","T","H">>
\* thirteen letters: short enough to be looked at, too long for a ticker
Line_13chars  == <<"A","b","c","d","e","f","g","h","i","j","k","l","m">>
\* cleans to a single character
Line_a_dash   == <<"a","-">>
Line_Page1    == <<"P","a","g","e"," ","1">>
Line_fin075   == <<"$","1",".","2","B"," ","$","9","0","0","M"," ","+","1","5","%"," ","-","2","%"," ","0",".","7","5">>
Line_finA     == <<"$","1",",","2","0","0",",","0","0","0"," ","$","9","0","0",",","0","0","0"," ","+","1","5","%"," ","+","2","%"," ","0",".","7","5">>

ExtractLines ==
    {Line_Bitcoin, Line_BTC, Line_13chars, Line_a_dash, Line_Page1, Line_fin075}

\* the lines `ls` as a PDF of two pages, the first page ending after line c
TwoPages(ls, c) == <<SubSeq(ls, 1, c), SubSeq(ls, c + 1, Len(ls))>>

ScenarioPage ==
    <<Line_Bitcoin, Line_BTC, Line_Ethereum, Line_ETH, Line_finA, Line_fin075>>

\* a page on which the cursor passes over a line it cannot pair
SkipPage == <<Line_a_dash, Line_13chars, Line_BTC, Line_fin075>>

\* a page with a one-character line, a number, and figures under a keyword
Line_X       == <<"X">>
Line_42      == <<"4","2">>
Line_vtmrfin == <<"V","T","M","R"," ","$","1",".","2","B"," ","$","9","0","0","M"," ","0",".","7","5">>
NoisePage == <<Line_X, Line_BTC, Line_42, Line_vtmrfin, Line_fin075>>

\* a ticker-shaped line before a line that is no ticker, a name that is not
\* ticker-shaped before a ticker, a ticker-shaped name before a ticker
ShapesPage == <<Line_BTC, Line_13chars, Line_ETH, Line_Bitcoin, Line_BTC>>

\* a page that ends in a text line and has a pair too many, before a page
\* that starts with a ticker and has figures but no pair
TextEndPage     == <<Line_Bitcoin, Line_BTC, Line_Ethereum, Line_ETH, Line_fin075,
                     Line_13chars>>
TickerStartPage == <<Line_BTC, Line_finA, Line_fin075>>

\* a page with more pairs than figures, and one with more figures than pairs
SurplusPairsPage == <<Line_Bitcoin, Line_BTC, Line_Ethereum, Line_ETH, Line_fin075>>
SurplusFiguresPage == <<Line_Bitcoin, Line_BTC, Line_finA, Line_fin075>>

\* the lines on one page, or broken into two pages half way
ExtractPdfs ==
    UNION {{Pdf(TRUE, TRUE, TwoPages(ls, c)) : c \in {Len(ls) \div 2, Len(ls)}} :
              ls \in SeqsUpTo(ExtractLines, MaxPdfLines)}
    \cup {Pdf(TRUE, TRUE, <<ScenarioPage, SkipPage>>),
          Pdf(TRUE, TRUE, <<SurplusPairsPage, SurplusFiguresPage>>),
          Pdf(TRUE, TRUE, <<NoisePage>>),
          Pdf(TRUE, TRUE, <<ShapesPage>>),
          Pdf(TRUE, TRUE, <<TextEndPage, TickerStartPage>>),
          Pdf(FALSE, TRUE, <<ScenarioPage, SkipPage>>),
          Pdf(TRUE, FALSE, <<>>)}

InitExtract ==
    /\ SpotIdle
    /\ oi_changes = <<>>
    /\ oi_scores = <<>>
    /\ futures_pdf \in ExtractPdfs
    /\ page_calls = <<>>
    /\ futures_df = EmptyFrame
    /\ spot_file = FileTable(TRUE, <<>>, <<>>)
    /\ spot_df = EmptyFrame
    /\ report = NoReport
    /\ job = "start"

\* `f_df = PDFParser.extract(uploaded_futures)`
Extract ==
    /\ job = "start"
    /\ \E out \in {extract(futures_pdf)} :
          /\ page_calls' = out.calls
          /\ futures_df' = out.df
    /\ job' = "extracted"
    /\ UNCHANGED <<spot_vars, score_vars, futures_pdf, spot_file, spot_df, report>>

NextExtract == Extract

SpecExtract == InitExtract /\ [][NextExtract]_vars

-----------------------------------------------------------------------------
(* DataProcessor.load_spot on the user's spot file *)

Head_Ticker    == <<"T","i","c","k","e","r">>
Head_SYMBOL    == <<"S","Y","M","B","O","L">>
Head_Token     == <<"T","o","k","e","n">>
Head_Coin      == <<"C","o","i","n">>
Head_Name      == <<"N","a","m","e">>
Head_Spot_VTMR == <<"S","p","o","t"," ","V","T","M","R">>
Head_VTMR      == <<"V","T","M","R">>
Head_MarketCap == <<"M","a","r","k","e","t","C","a","p">>

Text_btc     == <<"b","t","c">>
Text_sol     == <<"$","s","o","l">>
Text_075x    == <<"0",".","7","5","x">>
Text_040x    == <<"0",".","4","0","x">>

Head_rank  == <<"#">>
Head_Volume == <<"V","o","l","u","m","e">>
Text_1     == <<"#","1">>
Text_mc    == <<"$","1",".","2","B">>
Text_vol   == <<"$","9","0","0","M">>
Text_050x  == <<"0",".","5","0","x">>

\* the header of the spot engine's own report, and some of other make
SpotReportHeader == <<Head_rank, Head_Ticker, Head_MarketCap, Head_Volume, Head_VTMR>>
SpotHeaders ==
    { SpotReportHeader,
      <<Head_SYMBOL, Head_Spot_VTMR>>,
      <<Head_Spot_VTMR, Head_Token>>,
      <<Head_Coin, Head_Spot_VTMR>>,
      <<Head_Name, Head_MarketCap>> }

\* a row under a header: the token and the figure where their columns are
SpotRow(header, token, figure) ==
    IF header = SpotReportHeader THEN <<Text_1, token, Text_mc, Text_vol, figure>>
    ELSE IF header[1] = Head_Spot_VTMR THEN <<figure, token>>
    ELSE <<token, figure>>

SpotCells ==
    { <<Text_btc, Text_050x>>, <<Text_btc, Text_040x>>, <<Line_ETH, Text_NA>>,
      <<Text_sol, Text_075x>> }

SpotFiles ==
    UNION {{FileTable(TRUE, h, rows) :
               rows \in SeqsUpTo({SpotRow(h, c[1], c[2]) : c \in SpotCells}, MaxSpotRows)} :
              h \in SpotHeaders}
    \cup {FileTable(FALSE, <<>>, <<>>)}

InitLoad ==
    /\ SpotIdle
    /\ oi_changes = <<>>
    /\ oi_scores = <<>>
    /\ futures_pdf = Pdf(TRUE, TRUE, <<>>)
    /\ page_calls = <<>>
    /\ futures_df = EmptyFrame
    /\ spot_file = FileTable(TRUE, <<>>, <<>>)
    /\ spot_df = EmptyFrame
    /\ report = NoReport
    /\ job = "extracted"

\* `s_df = DataProcessor.load_spot(spot_file)`, with the file as it is read
LoadSpot ==
    /\ job = "extracted"
    /\ \E file \in SpotFiles :
          /\ spot_file' = file
          /\ spot_df' = load_spot(file)
    /\ job' = "loaded"
    /\ UNCHANGED <<spot_vars, score_vars, futures_pdf, page_calls, futures_df, report>>

NextLoad == LoadSpot

SpecLoad == InitLoad /\ [][NextLoad]_vars

-----------------------------------------------------------------------------
(* run_futures_analysis: the PDF, the spot file and the report made of them *)

Line_fin040 == <<"$","2",".","0","B"," ","$","8","0","0","M"," ","+","5","%"," ","+","1","%"," ","0",".","4","0">>
Line_fin050 == <<"$","1",".","0","B"," ","$","5","0","0","M"," ","-","3","%"," ","-","1","%"," ","0",".","5","0">>

\* a token as the PDF lists it: its name, its ticker, its figures
FuturesBlocks ==
    { <<Line_Bitcoin, Line_BTC, Line_fin040>>,
      <<Line_Bitcoin, Line_BTC, Line_fin050>>,
      <<Line_Ethereum, Line_ETH, Line_fin050>>,
      <<Line_Ethereum, Line_ETH, Line_fin075>> }

\* the tokens on one page, or each on a page of its own
ReportPdfs ==
    UNION {{Pdf(TRUE, TRUE, <<concat_all(blocks)>>), Pdf(TRUE, TRUE, blocks)} :
              blocks \in SeqsUpTo(FuturesBlocks, MaxFuturesRows)}
    \cup {Pdf(TRUE, FALSE, <<>>)}

InitReport ==
    /\ SpotIdle
    /\ oi_changes = <<>>
    /\ oi_scores = <<>>
    /\ futures_pdf \in ReportPdfs
    /\ page_calls = <<>>
    /\ futures_df = EmptyFrame
    /\ spot_file = FileTable(TRUE, <<>>, <<>>)
    /\ spot_df = EmptyFrame
    /\ report = NoReport
    /\ job = "start"

\* `html = DataProcessor.generate_html_report(f_df, s_df, user_id)`
GenerateReport ==
    /\ job = "loaded"
    /\ report' = generate_html_report(futures_df, spot_df)
    /\ job' = "reported"
    /\ UNCHANGED <<spot_vars, score_vars, futures_pdf, page_calls, futures_df, spot_file, spot_df>>

NextReport == Extract \/ LoadSpot \/ GenerateReport

SpecReport == InitReport /\ [][NextReport]_vars

-----------------------------------------------------------------------------
(* oi_score_and_signal on two values of oi_change *)

\* oi_change in steps of half a percent, up to this many steps either side
\* of zero
MaxOiSteps == 50

OiChanges ==
    {Rat(n, 200) : n \in (0 - MaxOiSteps)..MaxOiSteps}
    \cup {NaN, PlusInfinity, MinusInfinity}

InitScore ==
    /\ SpotIdle
    /\ futures_pdf = Pdf(TRUE, TRUE, <<>>)
    /\ page_calls = <<>>
    /\ futures_df = EmptyFrame
    /\ spot_file = FileTable(TRUE, <<>>, <<>>)
    /\ spot_df = EmptyFrame
    /\ report = NoReport
    /\ job = "idle"
    /\ oi_changes \in OiChanges \X OiChanges
    /\ oi_scores = <<>>

\* oi_score_and_signal(oi_change) for either value
ScoreOi ==
    /\ oi_scores = <<>>
    /\ oi_scores' = <<oi_score_and_signal(oi_changes[1]),
                      oi_score_and_signal(oi_changes[2])>>
    /\ UNCHANGED <<spot_vars, futures_pdf, page_calls, futures_df, spot_file, spot_df,
                   report, job, oi_changes>>

NextScore == ScoreOi

SpecScore == InitScore /\ [][NextScore]_vars

-----------------------------------------------------------------------------
(* Properties of the verification loop (spot cycle, specification Spec) *)

Indices(seq) == 1..Len(seq)

\* the snapshots of one symbol, in arrival order, read off `results`
GroupOf(sym) == SelectSeq(results, LAMBDA t : t.symbol = sym)

HasCG(g) == \E i \in Indices(g) : g[i].source = "CG"

\* the first CoinGecko snapshot of a group
IsFirstCG(g, i) ==
    /\ i \in Indices(g)
    /\ g[i].source = "CG"
    /\ \A j \in 1..(i - 1) : g[j].source # "CG"

RECURSIVE Total(_, _)
Total(g, field) == IF g = <<>> THEN 0 ELSE Head(g)[field] + Total(Tail(g), field)

\* a rational equals the whole amount k
IsAmount(r, k) == r.n = k * r.d

\* a rational is the arithmetic mean of a field over a group
IsMean(r, g, field) == r.n * Len(g) = Total(g, field) * r.d

Emitted(sym) == \E i \in Indices(hot_tokens) : hot_tokens[i].symbol = sym

SymbolsSeen == {results[i].symbol : i \in Indices(results)}

\* C1: when a symbol's group holds a CoinGecko snapshot, the token emitted for
\* that symbol carries exactly that snapshot's marketcap and volume (the first
\* CoinGecko snapshot of the group), whatever else the group holds.
C1_SovereignValues ==
    pc = "done" =>
        \A k \in Indices(hot_tokens) :
            LET tok == hot_tokens[k]
                g   == GroupOf(tok.symbol)
            IN HasCG(g) =>
                 \E i \in Indices(g) :
                    /\ IsFirstCG(g, i)
                    /\ IsAmount(tok.marketcap, g[i].marketcap)
                    /\ IsAmount(tok.volume, g[i].volume)

\* a token is out whose group mixes a CoinGecko snapshot with another
\* provider's snapshot of different marketcap and volume
C1_Witness ==
    /\ pc = "done"
    /\ \E k \in Indices(hot_tokens) :
          LET g == GroupOf(hot_tokens[k].symbol)
          IN /\ HasCG(g)
             /\ \E i, j \in Indices(g) :
                   /\ g[i].source = "CG" /\ g[j].source # "CG"
                   /\ g[i].marketcap # g[j].marketcap
                   /\ g[i].volume # g[j].volume

\* C2: a token emitted for a group without a CoinGecko snapshot carries the
\* arithmetic mean of the group's marketcaps and the arithmetic mean of its
\* volumes (marketcaps 100 and 120 with volumes 50 and 60 give 110, 55 and a
\* vtmr of 1/2); a group without a CoinGecko snapshot and with fewer than two
\* snapshots yields no token.
C2_FallbackMean ==
    pc = "done" =>
        /\ \A k \in Indices(hot_tokens) :
              LET tok == hot_tokens[k]
                  g   == GroupOf(tok.symbol)
              IN ~HasCG(g) =>
                   /\ IsMean(tok.marketcap, g, "marketcap")
                   /\ IsMean(tok.volume, g, "volume")
                   /\ ( /\ Len(g) = 2
                        /\ {g[1].marketcap, g[2].marketcap} = {100, 120}
                        /\ {g[1].volume, g[2].volume} = {50, 60} )
                      => /\ IsAmount(tok.marketcap, 110)
                         /\ IsAmount(tok.volume, 55)
                         /\ RatEq(tok.flipping_multiple, Rat(1, 2))
        /\ \A sym \in SymbolsSeen :
              (~HasCG(GroupOf(sym)) /\ Len(GroupOf(sym)) < 2) => ~Emitted(sym)

\* the scenario of the claim: two providers, marketcaps 100 and 120, volumes
\* 50 and 60, no CoinGecko snapshot, and the token is out
C2_Witness ==
    /\ pc = "done"
    /\ \E k \in Indices(hot_tokens) :
          LET g == GroupOf(hot_tokens[k].symbol)
          IN /\ ~HasCG(g)
             /\ Len(g) = 2
             /\ {g[1].marketcap, g[2].marketcap} = {100, 120}
             /\ {g[1].volume, g[2].volume} = {50, 60}
             /\ RatEq(hot_tokens[k].flipping_multiple, Rat(1, 2))

\* C3: every token emitted for a symbol without a CoinGecko snapshot is backed
\* by snapshots of at least two distinct providers.
C3_TwoDistinctProviders ==
    pc = "done" =>
        \A k \in Indices(hot_tokens) :
            LET g == GroupOf(hot_tokens[k].symbol)
            IN ~HasCG(g) => Cardinality({g[i].source : i \in Indices(g)}) >= 2

\* C4: large_cap is true exactly when the token's stored marketcap exceeds the
\* large-cap threshold.
C4_LargeCapFlag ==
    pc = "done" =>
        \A k \in Indices(hot_tokens) :
            LET tok == hot_tokens[k]
            IN tok.large_cap <=> (tok.marketcap.n > LC_UNITS * tok.marketcap.d)

\* C5: every token's flipping_multiple times its stored marketcap is its
\* stored volume, the stored marketcap is strictly positive, and on the
\* sovereign path marketcap and volume come from one and the same snapshot.
C5_RatioConsistent ==
    pc = "done" =>
        \A k \in Indices(hot_tokens) :
            LET tok == hot_tokens[k]
                g   == GroupOf(tok.symbol)
            IN /\ tok.marketcap.n > 0 /\ tok.marketcap.d > 0
               /\ tok.flipping_multiple.d > 0
               /\ tok.flipping_multiple.n * tok.marketcap.n * tok.volume.d
                    = tok.volume.n * tok.flipping_multiple.d * tok.marketcap.d
               /\ HasCG(g) =>
                    \E i \in Indices(g) :
                       /\ IsAmount(tok.marketcap, g[i].marketcap)
                       /\ IsAmount(tok.volume, g[i].volume)

\* a fallback token is out whose ratio is that of the averaged pair and of
\* none of the snapshots behind it
C5_Witness ==
    /\ pc = "done"
    /\ \E k \in Indices(hot_tokens) :
          LET g == GroupOf(hot_tokens[k].symbol)
          IN /\ ~HasCG(g)
             /\ \A i \in Indices(g) :
                   ~RatEq(hot_tokens[k].flipping_multiple, Rat(g[i].volume, g[i].marketcap))

\* the consensus marketcap and volume the two rules assign to a group
ConsensusOf(g) ==
    IF HasCG(g)
    THEN LET i == CHOOSE j \in Indices(g) : IsFirstCG(g, j)
         IN [marketcap |-> Rat(g[i].marketcap, 1), volume |-> Rat(g[i].volume, 1)]
    ELSE [marketcap |-> Rat(Total(g, "marketcap"), Len(g)),
          volume    |-> Rat(Total(g, "volume"), Len(g))]

HasConsensus(g) == HasCG(g) \/ Len(g) >= 2

\* C6: a group with consensus values is emitted if and only if its vtmr lies
\* in [min_largecap_vtmr, max_vtmr] when its consensus marketcap exceeds the
\* large-cap threshold and in [min_vtmr, max_vtmr] otherwise.
C6_FinalFilter ==
    pc = "done" =>
        \A sym \in SymbolsSeen :
            LET g     == GroupOf(sym)
                c     == ConsensusOf(g)
                vtmr  == Rat(c.volume.n * c.marketcap.d, c.volume.d * c.marketcap.n)
                large == c.marketcap.n > LC_UNITS * c.marketcap.d
                floor == IF large THEN MIN_LC_VTMR(user_keys) ELSE MIN_VTMR(user_keys)
            IN HasConsensus(g) =>
                 (Emitted(sym) <=>
                    (RatLeq(floor, vtmr) /\ RatLeq(vtmr, MAX_VTMR(user_keys))))

\* where a symbol's group sits in the iteration order of all_data
GroupPosition(sym) == CHOOSE x \in Indices(all_data) : all_data[x].sym = sym

\* C7: hot_tokens is a permutation of verified_tokens ordered by
\* flipping_multiple descending, and tokens of equal flipping_multiple keep
\* the order in which their symbol groups were iterated.
C7_SortedStable ==
    pc = "done" =>
        /\ Len(hot_tokens) = Len(verified_tokens)
        /\ \A i \in Indices(verified_tokens) :
              Cardinality({k \in Indices(hot_tokens) : hot_tokens[k] = verified_tokens[i]})
                = Cardinality({k \in Indices(verified_tokens) :
                                  verified_tokens[k] = verified_tokens[i]})
        /\ \A i, j \in Indices(hot_tokens) :
              i < j =>
                /\ RatLeq(hot_tokens[j].flipping_multiple, hot_tokens[i].flipping_multiple)
                /\ RatEq(hot_tokens[i].flipping_multiple, hot_tokens[j].flipping_multiple)
                   => GroupPosition(hot_tokens[i].symbol) < GroupPosition(hot_tokens[j].symbol)

\* the sort had work to do: the verification loop produced two tokens in
\* ascending order of ratio and the sort swapped them
C7_Witness ==
    /\ pc = "done"
    /\ Len(verified_tokens) = 2
    /\ RatLt(verified_tokens[1].flipping_multiple, verified_tokens[2].flipping_multiple)
    /\ hot_tokens[1] = verified_tokens[2]

-----------------------------------------------------------------------------
(* Properties of fetch_all_sources (spot cycle, specification Spec) *)

\* what the as_completed loop must have gathered from the first n completions
RECURSIVE Gathered(_)
Gathered(n) ==
    IF n = 0 THEN <<>>
    ELSE Gathered(n - 1) \o
         (IF future[completed[n]].state = "returned" THEN future[completed[n]].result
          ELSE <<>>)

\* C9: whichever tasks raise and in whatever order the tasks complete,
\* fetch_all_sources does not fail, and what it returns holds the snapshots of
\* every task that returned, in completion order.
C9_FailureIsolation ==
    /\ pc # "crashed"
    /\ results = Gathered(collected)
    /\ pc = "done" =>
          /\ collected = Len(Providers)
          /\ \A p \in ProviderSet :
                future[p].state = "returned" =>
                   \A i \in Indices(future[p].result) :
                      \E k \in Indices(results) : results[k] = future[p].result[i]

\* a cycle ended in which one task raised, and the snapshots of a task that
\* completed after it were still gathered
C9_Witness ==
    /\ pc = "done"
    /\ \E i, j \in Indices(completed) :
          /\ i < j
          /\ future[completed[i]].state = "raised"
          /\ future[completed[j]].state = "returned"
          /\ future[completed[j]].result # <<>>
    /\ results # <<>>

-----------------------------------------------------------------------------
(* Properties of the provider fetchers (specification SpecFetch) *)

Served == probe.api
Returned == probe.out.tokens

\* an element the fetcher must keep / an element at which the payload loop raises
Qualifies(item) ==
    /\ item.kind = "ok"
    /\ upper(item.symbol) \notin STABLECOINS
    /\ item.mc > 0
    /\ \/ RatLeq(MIN_VTMR(probe.keys), Rat(item.vol, item.mc))
       \/ RatLeq(MIN_LC_VTMR(probe.keys), Rat(item.vol, item.mc))

Breaks(item) ==
    \/ item.kind = "nondict"
    \/ item.kind = "badnum" /\ upper(item.symbol) \notin STABLECOINS

\* C8: every snapshot a fetcher returns has a symbol outside the stablecoin
\* set, a marketcap above 0 and volume/marketcap >= min(min_vtmr,
\* min_largecap_vtmr); each comes from a served element that meets the three
\* conditions, and no other element is appended.
C8_SnapshotInvariant ==
    probe.state = "returned" =>
        /\ \A i \in Indices(Returned) :
              LET t == Returned[i]
              IN /\ t.symbol \notin STABLECOINS
                 /\ t.marketcap > 0
                 /\ \/ RatLeq(MIN_VTMR(probe.keys), Rat(t.volume, t.marketcap))
                    \/ RatLeq(MIN_LC_VTMR(probe.keys), Rat(t.volume, t.marketcap))
                 /\ t.source = probe.provider
                 /\ \E k \in Indices(Served) : \E j \in Indices(Served[k].items) :
                       LET item == Served[k].items[j]
                       IN /\ Qualifies(item)
                          /\ upper(item.symbol) = t.symbol
                          /\ item.mc = t.marketcap /\ item.vol = t.volume
        /\ Len(Returned) <=
              Cardinality(UNION {{<<k, j>> : j \in {x \in Indices(Served[k].items) :
                                                        Qualifies(Served[k].items[x])}} :
                                 k \in Indices(Served)})

\* one page carried a lower-case stablecoin with a passing ratio next to a
\* qualifying element, and only the latter came back
C8_Witness ==
    /\ probe.state = "returned"
    /\ Len(Returned) = 1
    /\ \E k \in Indices(Served) :
          /\ Len(Served[k].items) = 2
          /\ \E j \in 1..2 :
                /\ Served[k].items[j].kind = "ok"
                /\ upper(Served[k].items[j].symbol) \in STABLECOINS
                /\ Served[k].items[j].symbol \notin STABLECOINS
                /\ Served[k].items[j].mc > 0
                /\ Served[k].items[j].vol * 2 >= Served[k].items[j].mc

\* whether the request for page k carried the key, and how it was answered
\* in the end (CoinGecko repeats a denied keyed request without the key and
\* stops sending the key)
KeySent(k) ==
    /\ key_usable(probe.keys, probe.provider)
    /\ probe.provider = "CG" => \A j \in 1..(k - 1) : Served[j].keyed # "denied"

Answer(k) ==
    IF probe.provider = "CG"
    THEN IF KeySent(k) /\ Served[k].keyed # "denied" THEN Served[k].keyed
         ELSE Served[k].keyless
    ELSE Served[k].keyed

\* the elements of a payload in front of the first one that raises
BeforeBreak(items) ==
    IF \E j \in Indices(items) : Breaks(items[j])
    THEN SubSeq(items, 1, (CHOOSE j \in Indices(items) :
                              /\ Breaks(items[j])
                              /\ \A i \in 1..(j - 1) : ~Breaks(items[i])) - 1)
    ELSE items

AsSnapshots(items) ==
    [j \in Indices(items) |->
        Snapshot(upper(items[j].symbol), items[j].mc, items[j].vol, probe.provider)]

\* what page k adds to the result
Contribution(k) ==
    IF Answer(k) # "ok" THEN <<>>
    ELSE AsSnapshots(SelectSeq(BeforeBreak(Served[k].items), Qualifies))

RECURSIVE ContributionsUpTo(_)
ContributionsUpTo(k) ==
    IF k = 0 THEN <<>> ELSE ContributionsUpTo(k - 1) \o Contribution(k)

PageFailed(k) ==
    \/ Answer(k) # "ok"
    \/ \E j \in Indices(Served[k].items) : Breaks(Served[k].items[j])

Skipped == probe.provider # "CG" /\ ~key_usable(probe.keys, probe.provider)

-----------------------------------------------------------------------------
(* Properties of the timed spot cycle (specification SpecTimed) *)

\* the snapshots of provider p that fetch_all_sources gathered
GatheredFrom(p) == SelectSeq(results, LAMBDA t : t.source = p)

\* C11: once fetch_all_sources has returned, no snapshot of a task that
\* completed later than RESULT_TIMEOUT seconds after submission is in its
\* output.
C11_BoundedWait ==
    pc = "done" =>
        \A p \in ProviderSet :
            future[p].done_at > RESULT_TIMEOUT => GatheredFrom(p) = <<>>

\* C12 as stated: a provider whose key is absent, empty or the placeholder
\* sends no request and contributes no snapshot.
C12_NoKeyNoRequest ==
    \A p \in ProviderSet :
        (~key_usable(user_keys, p) /\ future[p].state = "returned") =>
            future[p].requests = 0 /\ future[p].result = <<>>

\* C12 amended: without a usable key CoinMarketCap and LiveCoinWatch send no
\* request and contribute no snapshot, CoinGecko sends one request per page
\* (without the key header) and contributes what those pages yield; in either
\* case the cycle ends with the snapshots of every task that returned.
C12_KeylessProviders ==
    /\ \A p \in ProviderSet :
          (~key_usable(user_keys, p) /\ future[p].state = "returned") =>
              IF p = "CG" THEN future[p].requests = CG_PAGES
              ELSE future[p].requests = 0 /\ future[p].result = <<>>
    /\ pc # "crashed"
    /\ pc = "done" =>
          \A p \in ProviderSet :
              future[p].state = "returned" => GatheredFrom(p) = future[p].result

\* a cycle ended in which a provider other than CoinGecko had no usable key
\* and sent nothing, while the two others delivered snapshots
C12_Witness ==
    /\ pc = "done"
    /\ \E p \in ProviderSet \ {"CG"} :
          /\ ~key_usable(user_keys, p)
          /\ future[p].state = "returned" /\ future[p].requests = 0
          /\ \A q \in ProviderSet \ {p} : GatheredFrom(q) # <<>>

-----------------------------------------------------------------------------
(* Properties of PDFParser (specification SpecExtract) *)

Letters09 ==
    {Uppercase[i] : i \in 1..26} \cup {Digits[i] : i \in 1..10}

\* text made of A-Z and 0-9 only, between two and twelve characters long
IsTicker(text) ==
    /\ 2 <= Len(text) /\ Len(text) <= 12
    /\ \A i \in Indices(text) : text[i] \in Letters09

\* a text line upper-cased, with every character outside A-Z, 0-9 left out
Alnum(line) == SelectSeq(upper(line), LAMBDA c : c \in Letters09)

\* a candidate text line that stands for a ticker
TickerLine(line) == Len(line) <= 15 /\ IsTicker(Alnum(line))

\* C13: every row _parse_page_smart returns for a page, and every row of the
\* table extract returns, has a ticker of 2 to 12 characters out of A-Z and
\* 0-9; the ticker is the complete alphanumeric content of a candidate line
\* of at most 15 characters on the row's page, so a candidate that is too
\* long or too short supplies no ticker, not even a shortened one.
C13_TickerInvariant ==
    job = "extracted" =>
        /\ \A k \in Indices(page_calls) : \A r \in Indices(page_calls[k].tokens) :
              LET ticker == page_calls[k].tokens[r].ticker
              IN /\ IsTicker(ticker)
                 /\ \E j \in Indices(page_calls[k].raw_text_lines) :
                       /\ TickerLine(page_calls[k].raw_text_lines[j])
                       /\ ticker = Alnum(page_calls[k].raw_text_lines[j])
        /\ \A r \in Indices(futures_df.rows) :
              /\ IsTicker(futures_df.rows[r].ticker)
              /\ \E k \in Indices(page_calls) : \E q \in Indices(page_calls[k].tokens) :
                    page_calls[k].tokens[q] = futures_df.rows[r]

\* a page yielded a row although one of its candidate lines holds thirteen
\* alphanumeric characters, and that line's content is in no row
C13_Witness ==
    /\ job = "extracted"
    /\ futures_df.rows # <<>>
    /\ \E k \in Indices(page_calls) :
          /\ page_calls[k].tokens # <<>>
          /\ \E j \in Indices(page_calls[k].raw_text_lines) :
                /\ Len(page_calls[k].raw_text_lines[j]) <= 15
                /\ Len(Alnum(page_calls[k].raw_text_lines[j])) > 12

\* line i of a list of candidate lines (i counts from 0) is followed by a
\* line that stands for a ticker
NextIsTicker(R, i) == i + 1 < Len(R) /\ TickerLine(R[i + 2])

\* the pairs the cursor positions C[j..] give rise to
RECURSIVE PairsFrom(_, _, _)
PairsFrom(R, C, j) ==
    IF j > Len(C) THEN <<>>
    ELSE (IF NextIsTicker(R, C[j])
          THEN <<[name |-> R[C[j] + 1], ticker |-> Alnum(R[C[j] + 2])]>>
          ELSE <<>>)
         \o PairsFrom(R, C, j + 1)

\* C20: on every page the cursor over the candidate lines starts at 0, moves
\* on by 2 where the next line stands for a ticker and by 1 where it does
\* not, and stops at the end of the list; token_pairs holds, in cursor
\* order, the pair (line i, cleaned line i+1) of exactly the visited
\* positions i whose next line stands for a ticker, so no line is in two
\* pairs; Bitcoin, BTC, Ethereum, ETH gives (Bitcoin, BTC), (Ethereum, ETH).
C20_CursorPairing ==
    job = "extracted" =>
        \A k \in Indices(page_calls) :
            LET R == page_calls[k].raw_text_lines
                C == page_calls[k].cursor
                P == page_calls[k].token_pairs
                Step(i) == IF NextIsTicker(R, i) THEN 2 ELSE 1
            IN /\ (R = <<>>) <=> (C = <<>>)
               /\ C # <<>> =>
                     /\ C[1] = 0
                     /\ \A j \in 1..(Len(C) - 1) : C[j + 1] = C[j] + Step(C[j])
                     /\ C[Len(C)] < Len(R)
                     /\ C[Len(C)] + Step(C[Len(C)]) >= Len(R)
               /\ P = PairsFrom(R, C, 1)
               /\ \A a, b \in Indices(C) :
                     (a # b /\ NextIsTicker(R, C[a]) /\ NextIsTicker(R, C[b])) =>
                         {C[a], C[a] + 1} \cap {C[b], C[b] + 1} = {}
               /\ R = <<Line_Bitcoin, Line_BTC, Line_Ethereum, Line_ETH>> =>
                     P = <<[name |-> Line_Bitcoin, ticker |-> <<"B","T","C">>],
                           [name |-> Line_Ethereum, ticker |-> <<"E","T","H">>]>>

\* on one page the candidate lines Bitcoin, BTC, Ethereum, ETH were paired,
\* on another the cursor first stepped over a line and then emitted a pair
C20_Witness ==
    /\ job = "extracted"
    /\ \E k \in Indices(page_calls) :
          /\ page_calls[k].raw_text_lines =
                <<Line_Bitcoin, Line_BTC, Line_Ethereum, Line_ETH>>
          /\ Len(page_calls[k].token_pairs) = 2
    /\ \E k \in Indices(page_calls) :
          /\ Len(page_calls[k].cursor) >= 2
          /\ page_calls[k].cursor[2] = 1
          /\ Len(page_calls[k].token_pairs) = 1

\* the oiss cell a financial tuple's OI text stands for
OissOf(fin) ==
    IF fin.oi_str \in {NoGroup, <<>>, Text_dash, Text_NA} THEN DashCell
    ELSE make_oiss(fin.oi_str)

\* C21: every page yields as many rows as the shorter of its list of pairs
\* and its list of financial tuples has entries; row k has the name and
\* ticker of pair k and the market cap, volume, vtmr, OI and funding of
\* financial tuple k, so the entries beyond that number are in no row.
C21_Zipping ==
    job = "extracted" =>
        \A p \in Indices(page_calls) :
            LET pairs  == page_calls[p].token_pairs
                fins   == page_calls[p].financials
                tokens == page_calls[p].tokens
            IN /\ Len(tokens) <= Len(pairs)
               /\ Len(tokens) <= Len(fins)
               /\ Len(tokens) = Len(pairs) \/ Len(tokens) = Len(fins)
               /\ \A k \in Indices(tokens) :
                     /\ tokens[k].name = pairs[k].name
                     /\ tokens[k].ticker = pairs[k].ticker
                     /\ tokens[k].market_cap = fins[k].mc
                     /\ tokens[k].volume = fins[k].vol
                     /\ tokens[k].vtmr = parse_float(fins[k].vtmr).val
                     /\ tokens[k].oiss = OissOf(fins[k])
                     /\ tokens[k].funding = make_funding_signal(fins[k].fund_str)

\* one page gave a row and left a pair over, another gave a row and left a
\* financial tuple over
C21_Witness ==
    /\ job = "extracted"
    /\ \E p \in Indices(page_calls) :
          /\ page_calls[p].tokens # <<>>
          /\ Len(page_calls[p].token_pairs) > Len(page_calls[p].financials)
    /\ \E p \in Indices(page_calls) :
          /\ page_calls[p].tokens # <<>>
          /\ Len(page_calls[p].token_pairs) < Len(page_calls[p].financials)

\* the three buckets of a page line, in the order the tests are made
IsIgnoredLine(line) == has_ignore_keyword(line)
IsFigureLine(line) == ~IsIgnoredLine(line) /\ search_financial(line).matched
IsOtherLine(line) == ~IsIgnoredLine(line) /\ ~search_financial(line).matched

\* the lines of a sequence that are neither ignored nor figures, are not
\* purely numeric and have at least MinLen characters, in order
RECURSIVE TextLinesIn(_, _)
TextLinesIn(lines, MinLen) ==
    IF lines = <<>> THEN <<>>
    ELSE (IF /\ IsOtherLine(Head(lines))
             /\ ~isdigit(Head(lines))
             /\ Len(Head(lines)) >= MinLen
          THEN <<Head(lines)>> ELSE <<>>) \o TextLinesIn(Tail(lines), MinLen)

\* the financial tuples of the figure lines of a sequence, in order
RECURSIVE FiguresIn(_)
FiguresIn(lines) ==
    IF lines = <<>> THEN <<>>
    ELSE (IF IsFigureLine(Head(lines))
          THEN <<financial_tuple(search_financial(Head(lines)).groups)>>
          ELSE <<>>) \o FiguresIn(Tail(lines))

\* C22 (as the code has it): a line with an ignore keyword is dropped even
\* when it matches the financial pattern; otherwise a line matching the
\* pattern becomes a financial tuple; every other line of two or more
\* characters that is not purely numeric becomes a candidate text line;
\* one-character lines are dropped.  Both lists keep the page order.
C22_Classification ==
    job = "extracted" =>
        \A p \in Indices(page_calls) :
            /\ page_calls[p].financials = FiguresIn(page_calls[p].lines)
            /\ page_calls[p].raw_text_lines = TextLinesIn(page_calls[p].lines, 2)

\* C22 (as stated): the same, with every non-blank line that is not purely
\* numeric, one-character lines included, becoming a candidate text line.
C22_OneCharacterLinesKept ==
    job = "extracted" =>
        \A p \in Indices(page_calls) :
            /\ page_calls[p].financials = FiguresIn(page_calls[p].lines)
            /\ page_calls[p].raw_text_lines = TextLinesIn(page_calls[p].lines, 1)

\* a page with a keyword line that matches the pattern, a figure line, a
\* number, a one-character line and a text line has been classified
C22_Witness ==
    /\ job = "extracted"
    /\ \E p \in Indices(page_calls) :
          LET lines == page_calls[p].lines
          IN /\ \E k \in Indices(lines) :
                   IsIgnoredLine(lines[k]) /\ search_financial(lines[k]).matched
             /\ \E k \in Indices(lines) : isdigit(lines[k])
             /\ \E k \in Indices(lines) : Len(lines[k]) = 1 /\ ~isdigit(lines[k])
             /\ page_calls[p].financials # <<>>
             /\ page_calls[p].raw_text_lines # <<>>

\* C24: on every page the pairing loop's cursor starts at 0 and grows by 1
\* or 2 with every pass, so with n candidate text lines the loop makes at
\* most n passes, ends with the cursor at n or beyond, and emits at most
\* n / 2 (rounded down) pairs.
C24_PairingTerminates ==
    job = "extracted" =>
        \A p \in Indices(page_calls) :
            LET n == Len(page_calls[p].raw_text_lines)
                C == page_calls[p].cursor \o <<page_calls[p].exit>>
            IN /\ C[1] = 0
               /\ \A j \in 1..(Len(C) - 1) : C[j + 1] - C[j] \in {1, 2}
               /\ Len(page_calls[p].cursor) <= n
               /\ page_calls[p].exit >= n
               /\ Len(page_calls[p].token_pairs) <= n \div 2

\* on a page with three or more candidate lines the cursor made a step of 1
\* and a step of 2 and the loop emitted n / 2 (rounded down) pairs
C24_Witness ==
    /\ job = "extracted"
    /\ \E p \in Indices(page_calls) :
          LET n == Len(page_calls[p].raw_text_lines)
              C == page_calls[p].cursor \o <<page_calls[p].exit>>
          IN /\ n >= 3
             /\ \E j \in 1..(Len(C) - 1) : C[j + 1] - C[j] = 1
             /\ \E j \in 1..(Len(C) - 1) : C[j + 1] - C[j] = 2
             /\ Len(page_calls[p].token_pairs) = n \div 2

\* the single rule: line i is paired with line i+1 exactly when line i+1
\* cleans to a ticker, and the cursor then moves on by 2, otherwise by 1
RECURSIVE SingleRule(_, _, _)
SingleRule(R, i, out) ==
    IF i >= Len(R) THEN [pairs |-> out.pairs, cursor |-> out.cursor, exit |-> i]
    ELSE IF NextIsTicker(R, i)
    THEN SingleRule(R, i + 2,
             [pairs  |-> Append(out.pairs, [name |-> R[i + 1], ticker |-> Alnum(R[i + 2])]),
              cursor |-> Append(out.cursor, i)])
    ELSE SingleRule(R, i + 1, [pairs |-> out.pairs, cursor |-> Append(out.cursor, i)])

\* the pairs and cursor values of a page are those of the single rule
SameAsSingleRule(locals, single) ==
    /\ locals.token_pairs = single.pairs
    /\ locals.cursor = single.cursor
    /\ locals.exit = single.exit

\* C26: on every page the two-branch loop yields the pairs and the cursor
\* steps of the single rule "pair line i with line i+1 iff line i+1 cleans to
\* a ticker", which does not look at whether line i is ticker-shaped.
C26_SingleRule ==
    job = "extracted" =>
        \A p \in Indices(page_calls) :
            SameAsSingleRule(page_calls[p],
                SingleRule(page_calls[p].raw_text_lines, 0,
                           [pairs |-> <<>>, cursor |-> <<>>]))

\* the cursor stood on line i of the candidate lines R
Visited(p, i) == \E j \in Indices(page_calls[p].cursor) : page_calls[p].cursor[j] = i

\* one page paired a name line that is not ticker-shaped and a name line that
\* is, and stepped over a ticker-shaped line whose next line is not
C26_Witness ==
    /\ job = "extracted"
    /\ \E p \in Indices(page_calls) :
          LET R == page_calls[p].raw_text_lines
          IN /\ \E i \in 0..(Len(R) - 1) :
                   Visited(p, i) /\ ~TickerLine(R[i + 1]) /\ NextIsTicker(R, i)
             /\ \E i \in 0..(Len(R) - 1) :
                   Visited(p, i) /\ TickerLine(R[i + 1]) /\ NextIsTicker(R, i)
             /\ \E i \in 0..(Len(R) - 2) :
                   Visited(p, i) /\ TickerLine(R[i + 1]) /\ ~NextIsTicker(R, i)

\* the lines of a sequence as a set
LinesOf(lines) == {lines[k] : k \in Indices(lines)}

\* the rows of the pages p.. of the calls, page after page
RECURSIVE RowsFrom(_)
RowsFrom(p) ==
    IF p > Len(page_calls) THEN <<>> ELSE page_calls[p].tokens \o RowsFrom(p + 1)

\* the sum over the pages p.. of the smaller of the number of pairs and the
\* number of financial tuples
RECURSIVE RowCountFrom(_)
RowCountFrom(p) ==
    IF p > Len(page_calls) THEN 0
    ELSE (IF Len(page_calls[p].token_pairs) < Len(page_calls[p].financials)
          THEN Len(page_calls[p].token_pairs)
          ELSE Len(page_calls[p].financials)) + RowCountFrom(p + 1)

\* C27: when the PDF is read, every page is parsed by itself: the lines of
\* call p are the stripped non-blank lines of page p; every pair of page p
\* has its name and the line behind its ticker among the candidate lines of
\* page p; every row of page p has the figures of a financial tuple of page
\* p; and the rows returned are the pages' rows in page order, the sum over
\* the pages of min(pairs, financial tuples) in number.
C27_PageIsolation ==
    (job = "extracted" /\ futures_pdf.pypdf /\ futures_pdf.readable) =>
        /\ Len(page_calls) = Len(futures_pdf.pages)
        /\ \A p \in Indices(page_calls) :
              LET locals == page_calls[p]
                  page   == futures_pdf.pages[p]
              IN /\ LinesOf(locals.lines) \subseteq {strip(page[k]) : k \in Indices(page)}
                 /\ Len(locals.lines) <= Len(page)
                 /\ LinesOf(locals.raw_text_lines) \subseteq LinesOf(locals.lines)
                 /\ \A k \in Indices(locals.token_pairs) :
                       /\ locals.token_pairs[k].name \in LinesOf(locals.raw_text_lines)
                       /\ \E line \in LinesOf(locals.raw_text_lines) :
                             locals.token_pairs[k].ticker = Alnum(line)
                 /\ \A k \in Indices(locals.tokens) :
                       \E f \in Indices(locals.financials) :
                          /\ locals.tokens[k].market_cap = locals.financials[f].mc
                          /\ locals.tokens[k].volume = locals.financials[f].vol
                 /\ Len(locals.financials) <= Len(locals.lines)
        /\ futures_df.rows = RowsFrom(1)
        /\ Len(futures_df.rows) = RowCountFrom(1)

\* a page that ends in an unpaired text line and leaves a pair over is
\* followed by a page that starts with a ticker and leaves financial tuples
\* over, and the PDF gave a row
C27_Witness ==
    /\ job = "extracted"
    /\ futures_df.rows # <<>>
    /\ \E p \in 1..(Len(page_calls) - 1) :
          LET here == page_calls[p]
              next == page_calls[p + 1]
          IN /\ here.lines # <<>> /\ next.lines # <<>>
             /\ here.raw_text_lines # <<>> /\ next.raw_text_lines # <<>>
             /\ here.lines[Len(here.lines)] = here.raw_text_lines[Len(here.raw_text_lines)]
             /\ next.lines[1] = next.raw_text_lines[1]
             /\ TickerLine(next.lines[1])
             /\ \A k \in Indices(here.token_pairs) :
                   here.token_pairs[k].name # here.lines[Len(here.lines)]
             /\ Len(here.token_pairs) > Len(here.financials)
             /\ Len(next.token_pairs) < Len(next.financials)

-----------------------------------------------------------------------------
(* Properties of DataProcessor.load_spot (specification SpecLoad) *)

\* a column label, whatever its letter case, is one of the four aliases
IsTickerAlias(label) ==
    lower(label) \in {Label_ticker, Label_symbol, Label_token, Label_coin}

\* C19: for a readable spot file with exactly one column labelled 'ticker',
\* 'symbol', 'token' or 'coin' in any letter case, load_spot returns a table
\* with a 'ticker' column whose values are that column's cells upper-cased
\* and reduced to A-Z and 0-9, row by row.
C19_TickerAliases ==
    (job = "loaded" /\ spot_file.readable) =>
        \A c \in Indices(spot_file.columns) :
            ( /\ IsTickerAlias(spot_file.columns[c])
              /\ \A d \in Indices(spot_file.columns) \ {c} :
                    ~IsTickerAlias(spot_file.columns[d]) )
            => /\ "ticker" \in spot_df.columns
               /\ Len(spot_df.rows) = Len(spot_file.rows)
               /\ \A r \in Indices(spot_df.rows) :
                     spot_df.rows[r].ticker = Alnum(spot_file.rows[r][c])

-----------------------------------------------------------------------------
(* Properties of DataProcessor.generate_html_report (specification           *)
(* SpecReport)                                                              *)

\* generate_html_report has returned a page
ReportMade == job = "reported" /\ report.state = "html"

\* how many rows of a table are equal to a given row
Copies(rows, row) == Cardinality({k \in Indices(rows) : rows[k] = row})

\* a row of a futures table as extract gave it, without the display column
AsExtracted(f) == [c \in TOKEN_COLUMNS |-> f[c]]
ExtractedRows(rows) == [k \in Indices(rows) |-> AsExtracted(rows[k])]

\* a spot row of a table as load_spot gave it, without the sort column
AsLoaded(r) == [c \in DOMAIN r \ {"flip_numeric"} |-> r[c]]

PassesFilter(f) == RatLeq(Rat(1, 2), f.vtmr)

TickersOf(rows) == {rows[k].ticker : k \in Indices(rows)}

\* C14: when a report is made, both_markets holds exactly the joins of a spot
\* row with a futures row of the same ticker and vtmr >= 0.50, each as often
\* as the two rows occur; futures_only holds exactly the futures rows with
\* vtmr >= 0.50 whose ticker no spot row has; so no futures row with
\* vtmr < 0.50 is in either table.
C14_ReconcilerMembership ==
    ReportMade =>
        LET both   == report.both_markets.rows
            f_only == report.futures_only.rows
            joins  == [k \in Indices(both) |->
                          [spot |-> both[k].spot, fut |-> AsExtracted(both[k].fut)]]
        IN /\ \A k \in Indices(both) :
                 /\ both[k].spot.ticker = both[k].fut.ticker
                 /\ both[k].ticker = both[k].spot.ticker
                 /\ PassesFilter(both[k].fut)
                 /\ Copies(spot_df.rows, both[k].spot) > 0
                 /\ Copies(futures_df.rows, AsExtracted(both[k].fut)) > 0
           /\ \A i \in Indices(spot_df.rows), j \in Indices(futures_df.rows) :
                 LET r == spot_df.rows[i]
                     f == futures_df.rows[j]
                 IN (PassesFilter(f) /\ r.ticker = f.ticker) =>
                        Copies(joins, [spot |-> r, fut |-> f])
                            = Copies(spot_df.rows, r) * Copies(futures_df.rows, f)
           /\ \A k \in Indices(f_only) :
                 /\ PassesFilter(f_only[k])
                 /\ f_only[k].ticker \notin TickersOf(spot_df.rows)
                 /\ Copies(futures_df.rows, AsExtracted(f_only[k])) > 0
           /\ \A j \in Indices(futures_df.rows) :
                 LET f == futures_df.rows[j]
                 IN (PassesFilter(f) /\ f.ticker \notin TickersOf(spot_df.rows)) =>
                        Copies(ExtractedRows(f_only), f) = Copies(futures_df.rows, f)

\* a report with a join on the threshold, a futures-only row and, in the
\* PDF, a token below the threshold
C14_Witness ==
    /\ ReportMade
    /\ \E k \in Indices(report.both_markets.rows) :
          RatEq(report.both_markets.rows[k].fut.vtmr, Rat(1, 2))
    /\ report.futures_only.rows # <<>>
    /\ \E j \in Indices(futures_df.rows) : ~PassesFilter(futures_df.rows[j])

\* the text of a spot row's own vtmr, under whichever label load_spot left it
HasSpotVtmr(r) == "spot_flip" \in DOMAIN r \/ "vtmr" \in DOMAIN r
SpotVtmr(r) ==
    parse_float(remove_char(remove_char(
        IF "spot_flip" \in DOMAIN r THEN r.spot_flip ELSE r.vtmr, "x"), "X"))

\* C15: when a report is made, every row of spot_only is a spot row whose
\* ticker is not in both_markets and whose own spot vtmr reads as a number
\* >= 0.50; a row without a spot vtmr, or with one that is no number, is not
\* in spot_only.
C15_SpotOnlyThreshold ==
    ReportMade =>
        \A k \in Indices(report.spot_only.rows) :
            LET r == report.spot_only.rows[k]
            IN /\ Copies(spot_df.rows, AsLoaded(r)) > 0
               /\ r.ticker \notin TickersOf(report.both_markets.rows)
               /\ HasSpotVtmr(r)
               /\ SpotVtmr(r).ok
               /\ ~SpotVtmr(r).nan
               /\ RatLeq(Rat(1, 2), SpotVtmr(r).val)

\* C16: when a report is made, no ticker is in two of the three tables, and
\* a ticker that a spot row and a futures row with vtmr >= 0.50 share is in
\* both_markets and in neither of the other two.
C16_PartitionDisjoint ==
    ReportMade =>
        LET both   == TickersOf(report.both_markets.rows)
            f_only == TickersOf(report.futures_only.rows)
            s_only == TickersOf(report.spot_only.rows)
            shared == TickersOf(spot_df.rows)
                      \cap TickersOf(SelectSeq(futures_df.rows, PassesFilter))
        IN /\ both \cap f_only = {}
           /\ both \cap s_only = {}
           /\ f_only \cap s_only = {}
           /\ shared \subseteq both
           /\ shared \cap f_only = {}
           /\ shared \cap s_only = {}

\* a report with rows in all three tables
C16_Witness ==
    /\ ReportMade
    /\ report.both_markets.rows # <<>>
    /\ report.futures_only.rows # <<>>
    /\ report.spot_only.rows # <<>>

NoTickerTwice(rows) ==
    \A i, j \in Indices(rows) : rows[i].ticker = rows[j].ticker => i = j

\* C17: when a report is made, no ticker is on two rows of both_markets, of
\* futures_only or of spot_only, whatever the PDF and the spot file held.
C17_KeyedByTicker ==
    ReportMade =>
        /\ NoTickerTwice(report.both_markets.rows)
        /\ NoTickerTwice(report.futures_only.rows)
        /\ NoTickerTwice(report.spot_only.rows)

\* C18: generate_html_report returns None, with no table built, when the
\* futures table or the spot table is empty, and returns a page when
\* neither is.
C18_NoDataSignal ==
    job = "reported" =>
        IF is_empty_frame(futures_df) \/ is_empty_frame(spot_df)
        THEN report = Report("none", EmptyFrame, EmptyFrame, EmptyFrame)
        ELSE report.state = "html"


\* the futures rows of the PDF that carry a given ticker
FuturesRowsOf(ticker) == SelectSeq(futures_df.rows, LAMBDA f : f.ticker = ticker)

\* a spot row whose ticker the PDF lists, but only with vtmr < 0.50, and
\* whose own spot vtmr reads as a number >= 0.50
IsLowRatioTwin(r) ==
    /\ FuturesRowsOf(r.ticker) # <<>>
    /\ \A k \in Indices(FuturesRowsOf(r.ticker)) : ~PassesFilter(FuturesRowsOf(r.ticker)[k])
    /\ HasSpotVtmr(r)
    /\ SpotVtmr(r).ok
    /\ ~SpotVtmr(r).nan
    /\ RatLeq(Rat(1, 2), SpotVtmr(r).val)

SpotOnlyAsLoaded ==
    [k \in Indices(report.spot_only.rows) |-> AsLoaded(report.spot_only.rows[k])]

\* C29: when a report is made, a spot row whose ticker the futures table has
\* only in rows with vtmr < 0.50, and whose own vtmr is >= 0.50, is listed in
\* spot_only (as often as the spot file has it) and in neither other table,
\* and no futures row with vtmr < 0.50 is in both_markets or futures_only.
C29_LowRatioTwin ==
    ReportMade =>
        /\ \A i \in Indices(spot_df.rows) :
              IsLowRatioTwin(spot_df.rows[i]) =>
                 /\ Copies(SpotOnlyAsLoaded, spot_df.rows[i])
                        = Copies(spot_df.rows, spot_df.rows[i])
                 /\ spot_df.rows[i].ticker \notin TickersOf(report.both_markets.rows)
                 /\ spot_df.rows[i].ticker \notin TickersOf(report.futures_only.rows)
        /\ \A j \in Indices(futures_df.rows) :
              ~PassesFilter(futures_df.rows[j]) =>
                 /\ \A k \in Indices(report.both_markets.rows) :
                       AsExtracted(report.both_markets.rows[k].fut) # futures_df.rows[j]
                 /\ \A k \in Indices(report.futures_only.rows) :
                       AsExtracted(report.futures_only.rows[k]) # futures_df.rows[j]

\* a report was made for a spot file with such a row
C29_Witness ==
    /\ ReportMade
    /\ \E i \in Indices(spot_df.rows) :
          /\ IsLowRatioTwin(spot_df.rows[i])
          /\ "spot_flip" \in DOMAIN spot_df.rows[i]
          /\ Copies(SpotOnlyAsLoaded, spot_df.rows[i]) > 0


-----------------------------------------------------------------------------
(* Properties of the sovereign rule after the pre-filter (specification      *)
(* SpecListed)                                                              *)

\* the elements CoinGecko's endpoint lists for a symbol
ListedByCG(sym) == SelectSeq(listing["CG"], LAMBDA t : upper(t.symbol) = sym)

\* an element whose ratio is below FETCH_THRESHOLD
BelowFetchThreshold(t) ==
    t.mc > 0 /\ RatLt(Rat(t.vol, t.mc), FETCH_THRESHOLD(user_keys))

\* CoinGecko lists the symbol, and only with ratios below the threshold
OnlyLowOnCG(sym) ==
    /\ ListedByCG(sym) # <<>>
    /\ \A k \in Indices(ListedByCG(sym)) : BelowFetchThreshold(ListedByCG(sym)[k])

\* the group of a symbol in all_data
DataOf(sym) ==
    IF \E g \in Indices(all_data) : all_data[g].sym = sym
    THEN all_data[CHOOSE g \in Indices(all_data) : all_data[g].sym = sym].tokens
    ELSE <<>>

\* C28: when the cycle is done, every CoinGecko snapshot in a group has a
\* ratio >= FETCH_THRESHOLD; a symbol that CoinGecko listed only with ratios
\* below the threshold has no CoinGecko snapshot in its group, and where it
\* is emitted its group has two or more snapshots, none of CoinGecko, and its
\* market cap and volume are their averages.
C28_SovereignAfterPrefilter ==
    pc = "done" =>
        /\ \A g \in Indices(all_data) : \A k \in Indices(all_data[g].tokens) :
              all_data[g].tokens[k].source = "CG" =>
                 ~BelowFetchThreshold([mc  |-> all_data[g].tokens[k].marketcap,
                                       vol |-> all_data[g].tokens[k].volume])
        /\ \A sym \in {upper(t.symbol) : t \in ListedItems} :
              OnlyLowOnCG(sym) =>
                 /\ \A k \in Indices(DataOf(sym)) : DataOf(sym)[k].source # "CG"
                 /\ \A v \in Indices(verified_tokens) :
                       verified_tokens[v].symbol = sym =>
                          /\ Len(DataOf(sym)) >= 2
                          /\ verified_tokens[v].source_count = Len(DataOf(sym))
                          /\ RatEq(verified_tokens[v].marketcap,
                                   Rat(sum_of(DataOf(sym), "marketcap"), Len(DataOf(sym))))
                          /\ RatEq(verified_tokens[v].volume,
                                   Rat(sum_of(DataOf(sym), "volume"), Len(DataOf(sym))))

\* CoinGecko's task returned, having listed a coin with a ratio below the
\* threshold only, and the coin was emitted with figures that are not
\* CoinGecko's
C28_Witness ==
    /\ pc = "done"
    /\ future["CG"].state = "returned"
    /\ \E v \in Indices(verified_tokens) :
          /\ OnlyLowOnCG(verified_tokens[v].symbol)
          /\ \A k \in Indices(ListedByCG(verified_tokens[v].symbol)) :
                ~RatEq(verified_tokens[v].volume,
                       Rat(ListedByCG(verified_tokens[v].symbol)[k].vol, 1))


-----------------------------------------------------------------------------
(* Properties of run_background_task (specifications SpecTasks and          *)
(* SpecTasksFair)                                                           *)

\* the user's worker threads that have been started and have not ended
AliveWorkers(u) ==
    {k \in TaskIds : workers[k].user = u /\ workers[k].pc \in {"running", "returned", "raised"}}

\* C25: at any time at most one worker thread is alive for a user, so no two
\* workers write to the same user's progress and log entries concurrently.
C25_OneJobPerUser ==
    \A u \in Users : Cardinality(AliveWorkers(u)) <= 1

\* the user's calls of run_background_task whose worker has not ended
InFlight(u) ==
    {k \in TaskIds : workers[k].user = u
                     /\ workers[k].pc \in {"initialized", "running", "returned", "raised"}}

\* a call's `with LOCK` block empties the user's log list and sets the
\* progress to active, 5%, and only then is its thread started
BeginsUnderLock(k) ==
    /\ (workers[k].pc = "unused" /\ workers'[k].pc # "unused") =>
          /\ workers'[k].pc = "initialized"
          /\ USER_LOGS'[workers'[k].user] = <<>>
          /\ USER_PROGRESS'[workers'[k].user].status = "active"
          /\ USER_PROGRESS'[workers'[k].user].percent = 5
    /\ (workers[k].pc # "running" /\ workers'[k].pc = "running") =>
          workers[k].pc = "initialized"

\* the step that ends a worker writes success, 100%, after target_func
\* returned and error, 0%, after it raised
EndsWithTerminalUpdate(k) ==
    (workers[k].pc # "finished" /\ workers'[k].pc = "finished") =>
        /\ workers[k].pc \in {"returned", "raised"}
        /\ workers[k].pc = "returned" =>
              /\ workers'[k].wrote = "success"
              /\ USER_PROGRESS'[workers[k].user].status = "success"
              /\ USER_PROGRESS'[workers[k].user].percent = 100
        /\ workers[k].pc = "raised" =>
              /\ workers'[k].wrote = "error"
              /\ USER_PROGRESS'[workers[k].user].status = "error"
              /\ USER_PROGRESS'[workers[k].user].percent = 0

\* with every worker of a user ended, the user's progress is not active
NotLeftActive ==
    \A u \in Users :
        ((\E k \in TaskIds : workers[k].user = u) /\ InFlight(u) = {}) =>
            USER_PROGRESS[u].status \in {"success", "error"}

\* C30: run_background_task empties the user's log list and sets the
\* progress to active (5%) before the worker thread starts; every worker
\* eventually ends, and ends by writing success (100%) if target_func
\* returned and error (0%) if it raised; once the workers of a user have
\* ended the user's progress is not active.
C30_ProgressLifecycle ==
    /\ [][\A k \in TaskIds : BeginsUnderLock(k) /\ EndsWithTerminalUpdate(k)]_vars
    /\ []NotLeftActive
    /\ \A k \in TaskIds :
          (workers[k].pc = "initialized") ~> (workers[k].pc = "finished")

\* one worker has ended after target_func raised and one after it returned
C30_Witness ==
    /\ \E k \in TaskIds : workers[k].pc = "finished" /\ workers[k].wrote = "error"
    /\ \E k \in TaskIds : workers[k].pc = "finished" /\ workers[k].wrote = "success"
    /\ \E u \in Users : InFlight(u) = {} /\ USER_PROGRESS[u].status = "error"

-----------------------------------------------------------------------------
(* Properties of oi_score_and_signal (specification SpecScore) *)

\* c is a number (not NaN) and exceeds h hundredths
Above(c, h) == c # NaN /\ (c = PlusInfinity \/ (c.d > 0 /\ 100 * c.n > h * c.d))
\* c is a number and is h hundredths or less
AtMost(c, h) == c # NaN /\ (c = MinusInfinity \/ (c.d > 0 /\ 100 * c.n <= h * c.d))

\* the table of scores and signals
OiTable(c) ==
    IF Above(c, 20) THEN <<5, "Strong">>
    ELSE IF Above(c, 10) /\ AtMost(c, 20) THEN <<4, "Bullish">>
    ELSE IF Above(c, 0) /\ AtMost(c, 10) THEN <<3, "Build-Up">>
    ELSE IF Above(c, 0 - 10) /\ AtMost(c, 0) THEN <<2, "Weakening">>
    ELSE IF Above(c, 0 - 20) /\ AtMost(c, 0 - 10) THEN <<1, "Exiting">>
    ELSE <<0, "Exiting">>

\* the order of the float values that are numbers
FloatLeq(a, b) ==
    /\ a # NaN /\ b # NaN
    /\ \/ a = MinusInfinity
       \/ b = PlusInfinity
       \/ a.d > 0 /\ b.d > 0 /\ a.n * b.d <= b.n * a.d

\* C23: oi_score_and_signal returns for every oi_change, and returns the
\* score and signal of the table: 5 Strong above 0.20, 4 Bullish above 0.10
\* up to 0.20, 3 Build-Up above 0 up to 0.10, 2 Weakening above -0.10 up to
\* 0, 1 Exiting above -0.20 up to -0.10, 0 Exiting otherwise; the score lies
\* in 0..5 and never decreases when oi_change grows.
C23_OiScoreTable ==
    oi_scores # <<>> =>
        /\ \A k \in {1, 2} :
              /\ <<oi_scores[k].score, oi_scores[k].signal>> = OiTable(oi_changes[k])
              /\ oi_scores[k].score \in 0..5
              /\ RatEq(oi_changes[k], Rat(20, 100)) /\ oi_changes[k].d > 0
                    => oi_scores[k].score = 4
              /\ RatEq(oi_changes[k], Rat(0, 100)) /\ oi_changes[k].d > 0
                    => oi_scores[k].score = 2
        /\ FloatLeq(oi_changes[1], oi_changes[2])
              => oi_scores[1].score <= oi_scores[2].score

\* the function has been applied to exactly 0.20 and to a larger value that
\* scores higher
C23_Witness ==
    /\ oi_scores # <<>>
    /\ oi_changes[1] = Rat(40, 200)
    /\ oi_scores[1].score = 4
    /\ oi_scores[2].score = 5

====
